---- MODULE Spec2Model ----
(***************************************************************************)
(* Identifier validation and confidence pipeline of ghl-form-validations:  *)
(* the fixed-window rate limiter, the provider adapters, the validation    *)
(* orchestrator with its TTL cache, and the endpoints that call them.      *)
(*                                                                         *)
(* Specifications:                                                         *)
(*   SpecRL       the rate limiter alone, called by several clients        *)
(*   SpecAdapter  one call of a provider adapter, over every configuration *)
(*                and every way the HTTP call can end                      *)
(*   SpecPipe     requests to the validation endpoint and the lead         *)
(*                endpoint, served one at a time, under the Mailboxlayer / *)
(*                Numverify deployment and the ZeroBounce / PhoneValidator *)
(*                deployment                                               *)
(*   SpecCache    the TTL cache alone: setCache and getCache calls on a    *)
(*                few keys while the clock advances                        *)
(*   SpecForm     the client form: edits and blurs of the email and phone  *)
(*                fields, and the answers of the validation requests       *)
(*   SpecCo       validateEmail calls for one address that overlap in time *)
(***************************************************************************)
EXTENDS Integers, Sequences, FiniteSets, TLC

(***************************************************************************)
(* Bounds of the model                                                     *)
(***************************************************************************)
MaxLimit == 3
MaxWindow == 2
MaxTime == 4
MaxRequests == 2
MaxTtl == 2
MaxBlurs == 4
MaxOverlap == 2

VARIABLES
    now,        \* Date.now(), in ms
    windows,    \* rateLimit.ts: Map<string, Window>, a function on the keys present
    limit,      \* the limit argument the caller passes on every call
    windowMs,   \* the windowMs argument the caller passes on every call
    rlRes,      \* per key, what the last rateLimit call returned
    rlAt,       \* per key, Date.now() of the last rateLimit call
    winCalls,   \* per key, number of calls since the window was (re)created
    winFirst,   \* per key, what the first call of the current window returned
    resetFrom,  \* per key, count of the window that the last reset replaced (-1: none)
    adName,     \* the adapter under call: mailboxlayer, numverify or zerobounce
    adCfg,      \* the deployment configuration it reads
    adCountry,  \* the country argument (numverify)
    adPc,       \* idle, fetching (HTTP request in flight), returned
    adResp,     \* how the HTTP call ended
    adOut,      \* the verdict the adapter returned
    adNet,      \* number of HTTP requests the adapter issued
    adAborted,  \* whether controller.abort() ran
    deploy,     \* which generation of the code is deployed: "mbl" or "zb"
    pcfg,       \* whether the email and the phone provider credentials are set
    bodyEmail,  \* the email field the client submits
    bodyPhone,  \* the phone field the client submits
    bodyCountry,\* the country field the client submits
    cache,      \* cache.ts: cacheStore
    rq,         \* the request being served: position, verdicts, response and
                \* what it has done so far
    nReq,       \* number of requests received
    chLog,      \* per key, the last setCache call: value, Date.now() and ttlMs
    chGot,      \* what the getCache call that has just run returned
    form,       \* LeadForm.tsx: the component's state, its refs and its
                \* validation requests not yet settled
    co          \* validateEmail calls under way at the same time, and which of
                \* them wrote the cache last

rlVars == <<now, windows, limit, windowMs, rlRes, rlAt, winCalls, winFirst, resetFrom>>
adVars == <<adName, adCfg, adCountry, adPc, adResp, adOut, adNet, adAborted>>
pipeVars == <<deploy, pcfg, bodyEmail, bodyPhone, bodyCountry, cache, rq, nReq>>
chVars == <<chLog, chGot>>
formVars == <<form>>
coVars == <<co>>
vars == <<rlVars, adVars, pipeVars, chVars, formVars, coVars>>

(***************************************************************************)
(* Provider adapters.  A JSON value read from a provider response is "T"   *)
(* (true), "F" (false) or "U" (the field is missing); a score is held in   *)
(* hundredths, NoScore when the field is no number.  What the HTTP call    *)
(* does is its outcome: the fetch rejects ("net_fail"), the abort timer    *)
(* fires first ("timeout"), the body is no JSON ("bad_json"), or a JSON    *)
(* body arrives ("json", with its data; isNull for the JSON value null).   *)
(***************************************************************************)
TF == {"T", "F"}
NoScore == -1
EMAIL_SCORE_GOOD == 80
EMAIL_SCORE_MED == 50
BLOCK_ROLE_EMAILS == TRUE
ALLOW_LANDLINE == TRUE
ScoreValues == {0, 49, 50, 79, 80, 100}

\* Deployment configuration read from the environment: whether the provider
\* credential is set, BLOCK_DISPOSABLE and BLOCK_VOIP.
Configs == [key : BOOLEAN, blockDisposable : BOOLEAN, blockVoip : BOOLEAN]

EmailVerdict(valid, reason, confidence, score) ==
    [valid |-> valid, reason |-> reason, confidence |-> confidence, score |-> score]

PhoneVerdict(valid, reason, confidence, lineType) ==
    [valid |-> valid, reason |-> reason, confidence |-> confidence, lineType |-> lineType]

\* An exception propagating out of a call, in place of its return value.
Thrown == [valid |-> "THROWN", reason |-> "exception", confidence |-> "", score |-> NoScore]
IsThrown(v) == v.valid = "THROWN"

\* try { body } catch { return handler }
Catch(body, handler) == IF IsThrown(body) THEN handler ELSE body

NoData == [isNull |-> TRUE]

EmailFields(fv, mx, smtp, ca, disp, role, score, err) ==
    [isNull |-> FALSE, format_valid |-> fv, mx_found |-> mx, smtp_check |-> smtp,
     catch_all |-> ca, disposable |-> disp, role |-> role, score |-> score, error |-> err]

\* Responses carrying every expected field with its type.
WellFormedEmailData ==
    {EmailFields(fv, mx, smtp, ca, disp, role, score, "U") :
        fv \in TF, mx \in TF, smtp \in TF, ca \in TF, disp \in TF, role \in TF,
        score \in ScoreValues}

\* { success: false, error: {...} }
EmailErrorEnvelope == EmailFields("U", "U", "U", "U", "U", "U", NoScore, "T")

\* JSON bodies lacking expected fields: {}, a body without score, without
\* smtp_check and catch_all, without mx_found.
MalformedEmailData ==
    {EmailFields("U", "U", "U", "U", "U", "U", NoScore, "U"),
     EmailFields("T", "T", "T", "F", "F", "F", NoScore, "U"),
     EmailFields("T", "T", "U", "U", "F", "F", 80, "U"),
     EmailFields("T", "U", "T", "F", "F", "F", 80, "U")}

FailureKinds == {"net_fail", "timeout", "bad_json"}

Failure(kind) == [kind |-> kind, data |-> NoData]
Json(data) == [kind |-> "json", data |-> data]

EmailOutcomes ==
    {Failure(k) : k \in FailureKinds}
        \cup {Json(NoData), Json(EmailErrorEnvelope)}
        \cup {Json(d) : d \in MalformedEmailData}
        \cup {Json(d) : d \in WellFormedEmailData}

\* const computeConfidence = (score?: number): Confidence
computeConfidence(score) ==
    IF score = NoScore THEN "unknown"
    ELSE IF score >= EMAIL_SCORE_GOOD THEN "good"
    ELSE IF score >= EMAIL_SCORE_MED THEN "medium"
    ELSE "low"

\* const { ... } = data || {}
OrEmpty(data) ==
    IF data.isNull THEN EmailFields("U", "U", "U", "U", "U", "U", NoScore, "U") ELSE data

\* Mutant of mailboxlayerTry: the score is a gate again (a score below the
\* medium threshold blocks), and a catch-all domain blocks.
mailboxlayerTry_scoreGate(cfg, outcome) ==
    IF outcome.kind \in FailureKinds THEN Thrown
    ELSE
      LET d == OrEmpty(outcome.data)
          badFormat == d.format_valid # "T"
          noMx == d.mx_found # "T"
          smtpFail == d.smtp_check = "F"
          disposableBlocked == d.disposable = "T" /\ cfg.blockDisposable
          roleBlocked == d.role = "T" /\ BLOCK_ROLE_EMAILS
          lowScore == d.score # NoScore /\ d.score < EMAIL_SCORE_MED
      IN IF d.error = "T"
         THEN EmailVerdict("null", "provider_error", "unknown", NoScore)
         ELSE IF badFormat \/ noMx \/ smtpFail \/ disposableBlocked \/ roleBlocked
                 \/ (lowScore /\ d.catch_all = "T")
         THEN EmailVerdict("false", "verification_failed", "low", d.score)
         ELSE EmailVerdict("true", "", computeConfidence(d.score), d.score)

\* Mutant of mailboxlayerTry: a failed SMTP check is reported as unknown
\* instead of blocking.
mailboxlayerTry_softSmtp(cfg, outcome) ==
    IF outcome.kind \in FailureKinds THEN Thrown
    ELSE
      LET d == OrEmpty(outcome.data)
          badFormat == d.format_valid # "T"
          noMx == d.mx_found # "T"
          smtpFail == d.smtp_check = "F"
          disposableBlocked == d.disposable = "T" /\ cfg.blockDisposable
          roleBlocked == d.role = "T" /\ BLOCK_ROLE_EMAILS
      IN IF d.error = "T"
         THEN EmailVerdict("null", "provider_error", "unknown", NoScore)
         ELSE IF badFormat \/ noMx \/ disposableBlocked \/ roleBlocked
         THEN EmailVerdict("false",
                           IF badFormat THEN "bad_format"
                           ELSE IF noMx THEN "no_mx"
                           ELSE IF disposableBlocked THEN "disposable"
                           ELSE "role",
                           "low", d.score)
         ELSE IF smtpFail
         THEN EmailVerdict("null", "smtp_fail", "unknown", d.score)
         ELSE EmailVerdict("true", "", computeConfidence(d.score), d.score)

\* The body of mailboxlayerCheck's try block: a rejected fetch and a body that
\* is no JSON raise; a JSON body is turned into a verdict.
mailboxlayerTry(cfg, outcome) ==
    IF outcome.kind \in FailureKinds THEN Thrown
    ELSE
      LET d == OrEmpty(outcome.data)
          badFormat == d.format_valid # "T"
          noMx == d.mx_found # "T"
          smtpFail == d.smtp_check = "F"
          disposableBlocked == d.disposable = "T" /\ cfg.blockDisposable
          roleBlocked == d.role = "T" /\ BLOCK_ROLE_EMAILS
      IN IF d.error = "T"
         THEN EmailVerdict("null", "provider_error", "unknown", NoScore)
         ELSE IF badFormat \/ noMx \/ smtpFail \/ disposableBlocked \/ roleBlocked
         THEN EmailVerdict("false",
                           IF badFormat THEN "bad_format"
                           ELSE IF noMx THEN "no_mx"
                           ELSE IF smtpFail THEN "smtp_fail"
                           ELSE IF disposableBlocked THEN "disposable"
                           ELSE "role",
                           "low", d.score)
         ELSE EmailVerdict("true", "", computeConfidence(d.score), d.score)

\* Whether the adapter issues the HTTP request: if (!KEY) return ...
NeedsFetch(cfg) == cfg.key

ProviderMissing == EmailVerdict("null", "provider_missing", "unknown", NoScore)
TimeoutSoftPass == EmailVerdict("null", "timeout_soft_pass", "unknown", NoScore)

\* Mutant of mailboxlayerCheck: the fetch and the JSON parse run outside the
\* try block.
mailboxlayerCheck_noCatch(cfg, outcome) ==
    IF ~NeedsFetch(cfg) THEN ProviderMissing
    ELSE mailboxlayerTry(cfg, outcome)

\* mailboxlayerCheck(email) once the HTTP call has ended with `outcome`.
mailboxlayerCheck(cfg, outcome) ==
    IF ~NeedsFetch(cfg) THEN ProviderMissing
    ELSE Catch(mailboxlayerTry(cfg, outcome), TimeoutSoftPass)

(***************************************************************************)
(* Phone adapter (src/lib/numverify.ts).  "#" stands for a JSON value that *)
(* is no string (a number), on which a string method raises TypeError.     *)
(***************************************************************************)
CountryHints == {"", "US", "GB"}

PhoneFields(valid, cc, lt, err) ==
    [isNull |-> FALSE, valid |-> valid, country_code |-> cc, line_type |-> lt, error |-> err]

WellFormedPhoneData ==
    {PhoneFields(v, cc, lt, "U") :
        v \in TF, cc \in {"US", "us", "GB"}, lt \in {"mobile", "landline", "voip", "VOIP", "U"}}

\* { success: false, error: {...} }
PhoneErrorEnvelope == PhoneFields("U", "U", "U", "T")

MalformedPhoneData ==
    {PhoneFields("U", "U", "U", "U"),
     PhoneFields("T", "U", "U", "U"),
     PhoneFields("T", "#", "mobile", "U"),
     PhoneFields("T", "US", "#", "U")}

PhoneOutcomes ==
    {Failure(k) : k \in FailureKinds}
        \cup {Json(NoData), Json(PhoneErrorEnvelope)}
        \cup {Json(d) : d \in MalformedPhoneData}
        \cup {Json(d) : d \in WellFormedPhoneData}

ToUpperCase(str) ==
    IF str = "us" THEN "US" ELSE IF str = "voip" THEN "VOIP" ELSE str

ToLowerCase(str) ==
    IF str = "VOIP" THEN "voip" ELSE IF str = "US" THEN "us"
    ELSE IF str = "GB" THEN "gb" ELSE str

PhoneThrown == [valid |-> "THROWN", reason |-> "exception", confidence |-> "", lineType |-> "U"]

\* The body of numverifyCheck's try block.
numverifyTry(cfg, country, outcome) ==
    IF outcome.kind \in FailureKinds THEN PhoneThrown
    ELSE
      LET d == IF outcome.data.isNull THEN PhoneFields("U", "U", "U", "U") ELSE outcome.data
      IN IF d.valid # "T"
         THEN PhoneVerdict("false", "invalid_number", "low", "U")
         ELSE IF country # "" /\ d.country_code # "U" /\ d.country_code = "#"
         THEN PhoneThrown     \* country_code.toUpperCase is not a function
         ELSE IF country # "" /\ d.country_code # "U"
                 /\ ToUpperCase(d.country_code) # ToUpperCase(country)
         THEN PhoneVerdict("false", "country_mismatch", "low", "U")
         ELSE IF d.line_type = "#"
         THEN PhoneThrown     \* (line_type || "").toLowerCase is not a function
         ELSE
           LET lt == IF d.line_type = "U" THEN "" ELSE ToLowerCase(d.line_type)
           IN IF lt = "voip" /\ ~cfg.blockVoip
              THEN PhoneVerdict("true", "", "medium", lt)
              ELSE IF lt = "landline" /\ ~ALLOW_LANDLINE
              THEN PhoneVerdict("false", "line_type_blocked", "low", lt)
              ELSE IF lt = "voip" /\ cfg.blockVoip
              THEN PhoneVerdict("false", "voip_blocked", "low", lt)
              ELSE PhoneVerdict("true", "", "good", lt)

PhoneProviderMissing == PhoneVerdict("null", "provider_missing", "unknown", "U")
PhoneTimeoutSoftPass == PhoneVerdict("null", "timeout_soft_pass", "unknown", "U")

\* numverifyCheck(number, country) once the HTTP call has ended with `outcome`.
numverifyCheck(cfg, country, outcome) ==
    IF ~NeedsFetch(cfg) THEN PhoneProviderMissing
    ELSE Catch(numverifyTry(cfg, country, outcome), PhoneTimeoutSoftPass)

(***************************************************************************)
(* ZeroBounce email adapter (src/lib/zerobounce.ts)                        *)
(***************************************************************************)
ZB_NOT_CONFIGURED == "Email verification is not configured."
ZB_COULD_NOT_VERIFY == "We couldn't verify this email right now."

ZBFields(status, sub, did) ==
    [isNull |-> FALSE, status |-> status, sub_status |-> sub, did_you_mean |-> did]

ZBWellFormedData ==
    {ZBFields(st, sub, did) :
        st \in {"valid", "invalid", "catch-all", "unknown", "do_not_mail"},
        sub \in {"U", "disposable", "role_based", "mailbox_not_found"},
        did \in {"U", "user@gmail.com"}}

\* { error: "..." }: none of the expected fields
ZBErrorEnvelope == ZBFields("U", "U", "U")

ZBOutcomes ==
    {Failure(k) : k \in FailureKinds}
        \cup {Json(NoData), Json(ZBErrorEnvelope)}
        \cup {Json(d) : d \in ZBWellFormedData}

ZBCheck(valid, status, sub, reason, score) ==
    [valid |-> valid, status |-> status, sub_status |-> sub, reason |-> reason, score |-> score]

ZBThrown == ZBCheck("THROWN", "", "", "exception", NoScore)

\* function friendlyReason(status, sub, did)
friendlyReason(status, sub, did) ==
    IF status = "valid" THEN "U"
    ELSE IF did # "U" THEN "Did you mean " \o did \o "?"
    ELSE IF sub = "disposable" THEN "Disposable email addresses aren't allowed."
    ELSE IF sub = "role_based"
         THEN "Role-based addresses (info@, sales@, support@) aren't allowed."
    ELSE IF sub = "mailbox_not_found" THEN "Mailbox doesn't exist."
    ELSE IF status = "invalid" THEN "This email is undeliverable."
    ELSE IF status = "catch-all"
         THEN "This domain accepts all emails; please use a different address."
    ELSE IF status = "unknown" THEN ZB_COULD_NOT_VERIFY
    ELSE IF status = "do_not_mail" THEN "We can't accept this email address."
    ELSE "Invalid email address."

\* The body of zerobounceCheck's try block (the cache write apart).
zerobounceTry(outcome) ==
    IF outcome.kind \in FailureKinds THEN ZBThrown
    ELSE IF outcome.data.isNull THEN ZBThrown   \* data.status of null
    ELSE
      LET status == IF outcome.data.status = "U" THEN "" ELSE outcome.data.status
          sub == IF outcome.data.sub_status = "U" THEN "" ELSE outcome.data.sub_status
      IN ZBCheck(IF status = "valid" THEN "true" ELSE "false", status, sub,
                 friendlyReason(status, sub, outcome.data.did_you_mean),
                 IF status = "valid" THEN 100 ELSE 0)

ZBNotConfigured == ZBCheck("false", "U", "U", ZB_NOT_CONFIGURED, 0)
ZBCouldNotVerify == ZBCheck("false", "U", "U", ZB_COULD_NOT_VERIFY, 0)

\* zerobounceCheck(email, ip) for an address its cache does not hold, once
\* the HTTP call has ended with `outcome`.
zerobounceCheck(cfg, outcome) ==
    IF ~NeedsFetch(cfg) THEN ZBNotConfigured
    ELSE Catch(zerobounceTry(outcome), ZBCouldNotVerify)

(***************************************************************************)
(* Strings are sequences of one-character strings.                         *)
(***************************************************************************)
UpperChars == <<"A", "B", "C", "D", "E", "F", "G", "H", "I", "J", "K", "L", "M",
                "N", "O", "P", "Q", "R", "S", "T", "U", "V", "W", "X", "Y", "Z">>
LowerChars == <<"a", "b", "c", "d", "e", "f", "g", "h", "i", "j", "k", "l", "m",
                "n", "o", "p", "q", "r", "s", "t", "u", "v", "w", "x", "y", "z">>
DigitChars == <<"0", "1", "2", "3", "4", "5", "6", "7", "8", "9">>

Range(seq) == {seq[i] : i \in DOMAIN seq}

LowerChar(c) ==
    IF c \in Range(UpperChars)
    THEN LowerChars[CHOOSE i \in DOMAIN UpperChars : UpperChars[i] = c]
    ELSE c

\* String.prototype.toLowerCase
toLowerCase(str) == [i \in DOMAIN str |-> LowerChar(str[i])]

IsSpace(c) == c = " "
IsDigit(c) == c \in Range(DigitChars)

\* String.prototype.trim
trim(str) ==
    LET keep == {i \in DOMAIN str : ~IsSpace(str[i])}
    IN IF keep = {} THEN <<>>
       ELSE SubSeq(str, CHOOSE i \in keep : \A j \in keep : i <= j,
                        CHOOSE i \in keep : \A j \in keep : i >= j)

\* indexOf and lastIndexOf of a character, 1-based; 0 when absent (JS: -1).
indexOf(str, c) ==
    LET at == {i \in DOMAIN str : str[i] = c}
    IN IF at = {} THEN 0 ELSE CHOOSE i \in at : \A j \in at : i <= j

lastIndexOf(str, c) ==
    LET at == {i \in DOMAIN str : str[i] = c}
    IN IF at = {} THEN 0 ELSE CHOOSE i \in at : \A j \in at : i >= j

\* str.slice(from) with a 1-based first index
sliceFrom(str, from) == SubSeq(str, from, Len(str))

startsWith(str, prefix) ==
    Len(prefix) <= Len(str) /\ SubSeq(str, 1, Len(prefix)) = prefix

endsWith(str, suffix) ==
    Len(suffix) <= Len(str) /\ SubSeq(str, Len(str) - Len(suffix) + 1, Len(str)) = suffix

\* str.includes("..")
includesDotDot(str) == \E i \in 1..(Len(str) - 1) : str[i] = "." /\ str[i + 1] = "."

\* input.replace(/\D/g, "")
RECURSIVE digitsOnly(_)
digitsOnly(str) ==
    IF str = <<>> THEN <<>>
    ELSE (IF IsDigit(Head(str)) THEN <<Head(str)>> ELSE <<>>) \o digitsOnly(Tail(str))

\* phone.replace(/[^\d+]/g, "")
RECURSIVE digitsAndPlus(_)
digitsAndPlus(str) ==
    IF str = <<>> THEN <<>>
    ELSE (IF IsDigit(Head(str)) \/ Head(str) = "+" THEN <<Head(str)>> ELSE <<>>)
            \o digitsAndPlus(Tail(str))

(***************************************************************************)
(* Local checks of the orchestrator (src/lib/validate.ts)                  *)
(***************************************************************************)
MAX_EMAIL_LENGTH == 254
MAX_LOCAL_LENGTH == 64
MIN_PHONE_DIGITS == 7
MAX_PHONE_DIGITS == 15

\* /^[^\s@]+@[^\s@]+\.[^\s@]{2,}$/.test(email)
matchesEmailRe(email) ==
    LET ats == {i \in DOMAIN email : email[i] = "@"}
        at == indexOf(email, "@")
    IN /\ \A i \in DOMAIN email : ~IsSpace(email[i])
       /\ Cardinality(ats) = 1
       /\ at > 1
       /\ \E dot \in (at + 2)..(Len(email) - 2) : email[dot] = "."

\* export function isPlausibleEmail(email)
isPlausibleEmail(email) ==
    IF email = <<>> \/ Len(email) > MAX_EMAIL_LENGTH THEN FALSE
    ELSE IF ~matchesEmailRe(email) THEN FALSE
    ELSE LET at == indexOf(email, "@")
             local == SubSeq(email, 1, at - 1)
             domain == sliceFrom(email, at + 1)
         IN IF local = <<>> \/ domain = <<>> THEN FALSE
            ELSE IF Len(local) > MAX_LOCAL_LENGTH THEN FALSE
            ELSE ~includesDotDot(domain)

\* export function isPlausiblePhoneBare(input)
isPlausiblePhoneBare(input) ==
    IF input = <<>> THEN FALSE
    ELSE LET digits == digitsOnly(input)
         IN Len(digits) >= MIN_PHONE_DIGITS /\ Len(digits) <= MAX_PHONE_DIGITS

\* function getDomain(email): the domain, <<>> for null
getDomain(email) ==
    LET at == lastIndexOf(email, "@")
    IN IF at = 0 THEN <<>> ELSE toLowerCase(trim(sliceFrom(email, at + 1)))

TRUSTED_EMAIL_DOMAINS ==
    {<<"g", "m", "a", "i", "l", ".", "c", "o", "m">>,
     <<"g", "o", "o", "g", "l", "e", "m", "a", "i", "l", ".", "c", "o", "m">>,
     <<"o", "u", "t", "l", "o", "o", "k", ".", "c", "o", "m">>,
     <<"h", "o", "t", "m", "a", "i", "l", ".", "c", "o", "m">>,
     <<"l", "i", "v", "e", ".", "c", "o", "m">>,
     <<"m", "s", "n", ".", "c", "o", "m">>,
     <<"y", "a", "h", "o", "o", ".", "c", "o", "m">>,
     <<"y", "m", "a", "i", "l", ".", "c", "o", "m">>,
     <<"i", "c", "l", "o", "u", "d", ".", "c", "o", "m">>,
     <<"m", "e", ".", "c", "o", "m">>,
     <<"p", "r", "o", "t", "o", "n", ".", "m", "e">>,
     <<"p", "r", "o", "t", "o", "n", "m", "a", "i", "l", ".", "c", "o", "m">>}

ROLE_PREFIXES ==
    {<<"i", "n", "f", "o">>, <<"s", "a", "l", "e", "s">>,
     <<"s", "u", "p", "p", "o", "r", "t">>, <<"a", "d", "m", "i", "n">>,
     <<"c", "o", "n", "t", "a", "c", "t">>, <<"h", "e", "l", "p">>,
     <<"n", "o", "r", "e", "p", "l", "y">>, <<"n", "o", "-", "r", "e", "p", "l", "y">>}

\* email.split("@")[0]
localPart(email) ==
    LET at == indexOf(email, "@")
    IN IF at = 0 THEN email ELSE SubSeq(email, 1, at - 1)

\* function isRoleEmail(email)
isRoleEmail(email) ==
    IF ~BLOCK_ROLE_EMAILS THEN FALSE
    ELSE LET local == toLowerCase(localPart(email))
         IN \E prefix \in ROLE_PREFIXES :
                local = prefix \/ startsWith(local, prefix \o <<".">>)

(***************************************************************************)
(* Denylist (src/lib/emailBlocklist.ts)                                    *)
(***************************************************************************)
BLOCKED_EMAIL_PREFIXES ==
    {<<"m", "o", "t", "i", "v", "a", "t", "i", "o", "n", ".", "u", "s", "a">>}

BLOCKED_EMAIL_DOMAINS ==
    {<<"m", "a", "i", "l", "i", "n", "a", "t", "o", "r", ".", "c", "o", "m">>,
     <<"t", "e", "m", "p", "m", "a", "i", "l", ".", "c", "o", "m">>,
     <<"g", "u", "e", "r", "r", "i", "l", "l", "a", "m", "a", "i", "l", ".", "c", "o", "m">>,
     <<"1", "0", "m", "i", "n", "u", "t", "e", "m", "a", "i", "l", ".", "c", "o", "m">>,
     <<"y", "o", "p", "m", "a", "i", "l", ".", "c", "o", "m">>,
     <<"d", "a", "y", "r", "e", "p", ".", "c", "o", "m">>,
     <<"r", "h", "y", "t", "a", ".", "c", "o", "m">>,
     <<"a", "r", "m", "y", "s", "p", "y", ".", "c", "o", "m">>,
     <<"t", "i", "f", "f", "i", "n", "c", "r", "a", "n", "e", ".", "c", "o", "m">>}

\* export function isBlockedEmailPrefix(email): blocked?
isBlockedEmailPrefix(email) ==
    IF email = <<>> THEN FALSE
    ELSE LET trimmed == toLowerCase(trim(email))
             at == indexOf(trimmed, "@")
         IN IF at <= 1 THEN FALSE
            ELSE \E p \in BLOCKED_EMAIL_PREFIXES :
                    startsWith(SubSeq(trimmed, 1, at - 1), toLowerCase(p))

\* export function isBlockedEmailDomain(email): blocked?
isBlockedEmailDomain(email) ==
    IF email = <<>> THEN FALSE
    ELSE LET d == getDomain(email)
         IN IF d = <<>> THEN FALSE
            ELSE d \in BLOCKED_EMAIL_DOMAINS
                 \/ \E b \in BLOCKED_EMAIL_DOMAINS : d = b \/ endsWith(d, <<".">> \o b)

(***************************************************************************)
(* In-memory TTL cache (src/lib/cache.ts): a map from key to                *)
(* { value, expiresAt }.  A key is <<namespace, country, string>>.           *)
(***************************************************************************)
EMAIL_TTL_MS == 15 * 60 * 1000
PHONE_TTL_MS == 15 * 60 * 1000
ZB_TTL_VALID_MS == 15 * 60 * 1000
ZB_TTL_OTHER_MS == 5 * 60 * 1000
PV_TTL_OK_MS == 15 * 60 * 1000
PV_TTL_STATUS_MS == 10 * 60 * 1000
PV_TTL_SOFT_MS == 5 * 60 * 1000

EmptyCache == [k \in {} |-> [value |-> 0, expiresAt |-> 0]]

Drop(f, k) == [x \in DOMAIN f \ {k} |-> f[x]]

\* getCache(key) at Date.now() = t: whether it returns an entry
cacheHit(store, key, t) ==
    IF key \notin DOMAIN store THEN FALSE ELSE ~(t > store[key].expiresAt)

\* getCache(key) at Date.now() = t: the store it leaves (an expired entry is
\* deleted by the read)
getCacheStore(store, key, t) ==
    IF key \notin DOMAIN store THEN store
    ELSE IF t > store[key].expiresAt THEN Drop(store, key)
    ELSE store

\* Mutant of setCache: a set on a key that is present is dropped (the first
\* writer wins).
setCache_firstWins(store, key, value, ttlMs, t) ==
    [x \in DOMAIN store \cup {key} |->
        IF x \in DOMAIN store THEN store[x]
        ELSE [value |-> value, expiresAt |-> t + ttlMs]]

\* Mutant of setCache: a set on a key that is present replaces the value but
\* keeps the expiry of the entry it replaces.
setCache_keepExpiry(store, key, value, ttlMs, t) ==
    [x \in DOMAIN store \cup {key} |->
        IF x = key
        THEN [value |-> value,
              expiresAt |-> IF key \in DOMAIN store THEN store[key].expiresAt
                            ELSE t + ttlMs]
        ELSE store[x]]

\* setCache(key, value, ttlMs) at Date.now() = t
setCache(store, key, value, ttlMs, t) ==
    [x \in DOMAIN store \cup {key} |->
        IF x = key THEN [value |-> value, expiresAt |-> t + ttlMs] ELSE store[x]]

\* getCache(key) at Date.now() = t: the value it returns (Absent: undefined)
Absent == "undefined"

getCache(store, key, t) == IF cacheHit(store, key, t) THEN store[key].value ELSE Absent

\* No cache call has been recorded (the state of the cache history outside
\* SpecCache).
NoGet == [key |-> "", value |-> Absent]

CacheIdle ==
    /\ chLog = EmptyCache
    /\ chGot = NoGet

(***************************************************************************)
(* The client form (src/components/LeadForm.tsx).  Per field: the input's  *)
(* value, the valid / reason / pending state, and the validation requests  *)
(* that have not settled yet, each "flight" (fetch awaited) or "aborted"   *)
(* (its controller was aborted, the rejection not yet handled).            *)
(***************************************************************************)
Fields == {"email", "phone"}
FieldValues == {"", "a"}

\* useState / useRef initial values
FormInit(requiredOk) ==
    [value |-> [f \in Fields |-> ""],
     valid |-> [f \in Fields |-> "null"],
     reason |-> [f \in Fields |-> ""],
     pending |-> [f \in Fields |-> FALSE],
     latest |-> [f \in Fields |-> ""],
     abortRef |-> [f \in Fields |-> 0],
     reqs |-> [f \in Fields |-> {}],
     nCalls |-> [f \in Fields |-> 0],
     setByStale |-> [f \in Fields |-> FALSE],
     setByAborted |-> [f \in Fields |-> FALSE],
     requiredOk |-> requiredOk,
     submitting |-> FALSE]

\* The form is not mounted (the state of the form outside SpecForm).
FormIdle == form = FormInit(FALSE)

\* const canSubmit = useMemo(...)
canSubmit(fm) ==
    LET validationsOk == fm.valid["email"] = "true" /\ fm.valid["phone"] = "true"
        nonePending == ~fm.pending["email"] /\ ~fm.pending["phone"] /\ ~fm.submitting
    IN fm.requiredOk /\ validationsOk /\ nonePending

\* onEmailChange / onPhoneChange
onChange(fm, f, v) ==
    [fm EXCEPT !.value[f] = v, !.valid[f] = "null", !.reason[f] = ""]

\* validateEmailField / validatePhoneField up to `await fetch`: an empty
\* value resets the state and returns; else the controller in the ref is
\* aborted, a new request is sent and the pending flag is set.
validateField(fm, f) ==
    LET value == fm.value[f]
        id == fm.nCalls[f] + 1
        fm1 == [fm EXCEPT !.latest[f] = value, !.nCalls[f] = id]
        abortOne(r) == IF r.id = fm.abortRef[f] /\ r.st = "flight"
                       THEN [r EXCEPT !.st = "aborted"] ELSE r
    IN IF value = ""
       THEN [fm1 EXCEPT !.valid[f] = "null", !.reason[f] = ""]
       ELSE [fm1 EXCEPT !.reqs[f] = {abortOne(r) : r \in @}
                                       \cup {[id |-> id, value |-> value, st |-> "flight"]},
                        !.abortRef[f] = id,
                        !.pending[f] = TRUE]

\* The answers a validation request can get: HTTP 200 with emailValid /
\* phoneValid true, false or null and the value echoed, or a failure
\* (network error, status not ok, body not JSON).
FormAnswers == {"true", "false", "null", "failed"}

\* The rest of validateEmailField / validatePhoneField once the fetch of
\* request r has settled with `answer`: try / catch / finally.
afterFetch(fm, f, r, answer) ==
    LET rest == [fm EXCEPT !.reqs[f] = @ \ {r}]
        superseded == r.id < fm.nCalls[f]
        aborted == r.id # fm.abortRef[f]
        echo == r.value              \* route.ts echoes the value it was sent
        mark == [rest EXCEPT !.setByStale[f] = IF superseded THEN TRUE ELSE @,
                             !.setByAborted[f] = IF aborted THEN TRUE ELSE @,
                             !.pending[f] = FALSE]
    IN IF r.st = "aborted"
       THEN [rest EXCEPT !.pending[f] = FALSE]     \* AbortError: return; finally
       ELSE IF answer = "failed"
       THEN [mark EXCEPT !.valid[f] = "null", !.reason[f] = "timeout_soft_pass"]
       ELSE IF echo # r.value
       THEN [rest EXCEPT !.pending[f] = FALSE]     \* stale
       ELSE [mark EXCEPT !.valid[f] = answer, !.reason[f] = ""]

(***************************************************************************)
(* PhoneValidator adapter (src/lib/phonevalidator.ts)                      *)
(***************************************************************************)
DigitVal(c) == (CHOOSE i \in DOMAIN DigitChars : DigitChars[i] = c) - 1

PV_TEN_DIGITS ==
    "US numbers must have 10 digits (area code + number). If you included +1, remove it."

\* export function nanpPrecheckUS(input)
nanpPrecheckUS(input) ==
    LET all == digitsOnly(input)
        digits == IF Len(all) = 11 /\ Head(all) = "1" THEN Tail(all) ELSE all
    IN IF Len(digits) # 10
       THEN [ok |-> FALSE, reason |-> PV_TEN_DIGITS, normalized |-> <<>>]
       ELSE LET areaFirst == DigitVal(digits[1])
                exchangeFirst == DigitVal(digits[4])
                exchangeMid == DigitVal(digits[5])
            IN IF areaFirst < 2 \/ areaFirst > 9
               THEN [ok |-> FALSE, reason |-> "Invalid area code format.",
                     normalized |-> <<>>]
               ELSE IF exchangeFirst < 2 \/ exchangeFirst > 9
               THEN [ok |-> FALSE, reason |-> "Invalid central office code format.",
                     normalized |-> <<>>]
               ELSE IF exchangeMid = 1 /\ exchangeFirst >= 2 /\ exchangeFirst <= 9
               THEN [ok |-> FALSE, reason |-> "Central office code cannot be an N11 code.",
                     normalized |-> <<>>]
               ELSE [ok |-> TRUE, reason |-> "U", normalized |-> digits]

\* PhoneCheckOutcome
PVOutcome(ok, valid, reason, lineType) ==
    [ok |-> ok, valid |-> valid, reason |-> reason, lineType |-> lineType]

PVThrown == PVOutcome(FALSE, "THROWN", "exception", "U")

\* A PhoneValidator response: res.ok, StatusCode, the line type and
\* PhoneDeactivation.LastDeactivation.
PVFields(httpOk, statusCode, lineType, deactivated) ==
    [isNull |-> FALSE, httpOk |-> httpOk, StatusCode |-> statusCode,
     LineType |-> lineType, LastDeactivation |-> deactivated]

PVWellFormedData ==
    {PVFields("T", "200", lt, de) :
        lt \in {"CELL PHONE", "VOIP", "LANDLINE", "TOLL-FREE", "U"}, de \in TF}

PVOutcomes ==
    {Failure(k) : k \in FailureKinds}
        \cup {Json(NoData), Json(PVFields("F", "U", "U", "U")),
              Json(PVFields("T", "U", "U", "U"))}
        \cup {Json(d) : d \in PVWellFormedData}

\* phonevalidatorCheck before any HTTP request: "call" when the provider is
\* to be asked about `norm`, else the outcome returned at once.
phonevalidatorPre(hasKey, phone, country) ==
    LET phoneRaw == trim(phone)
    IN IF phoneRaw = <<>>
       THEN [call |-> FALSE, norm |-> <<>>,
             out |-> PVOutcome(TRUE, "false", "Enter your phone number.", "U")]
       ELSE IF ~hasKey
       THEN [call |-> FALSE, norm |-> <<>>, out |-> PVOutcome(FALSE, "true", "U", "U")]
       ELSE IF country \in {"US", "CA", ""}
       THEN LET pre == nanpPrecheckUS(phoneRaw)
            IN IF ~pre.ok
               THEN [call |-> FALSE, norm |-> <<>>,
                     out |-> PVOutcome(TRUE, "false", pre.reason, "U")]
               ELSE [call |-> TRUE, norm |-> <<"+", "1">> \o pre.normalized,
                     out |-> PVOutcome(FALSE, "true", "U", "U")]
       ELSE LET norm == digitsOnly(phoneRaw)
            IN IF Len(norm) < 10
               THEN [call |-> FALSE, norm |-> <<>>,
                     out |-> PVOutcome(TRUE, "false", "Number looks too short.", "U")]
               ELSE [call |-> TRUE, norm |-> norm,
                     out |-> PVOutcome(FALSE, "true", "U", "U")]

\* The body of callPhoneValidator's try block: the outcome and the TTL it is
\* cached with.
callPhoneValidatorTry(outcome) ==
    IF outcome.kind \in FailureKinds THEN [out |-> PVThrown, ttl |-> 0]
    ELSE IF outcome.data.isNull THEN [out |-> PVThrown, ttl |-> 0]   \* res.ok of a null body
    ELSE IF outcome.data.httpOk # "T"
    THEN [out |-> PVOutcome(FALSE, "true", "U", "U"), ttl |-> PV_TTL_OK_MS]
    ELSE IF outcome.data.StatusCode # "200"
    THEN [out |-> PVOutcome(FALSE, "true", "U", "U"), ttl |-> PV_TTL_STATUS_MS]
    ELSE
      LET lineType == IF outcome.data.LineType = "U" THEN "UNKNOWN"
                      ELSE outcome.data.LineType
          deactivated == outcome.data.LastDeactivation = "T"
          isCell == lineType = "CELL PHONE"
          isRejectedType == lineType \in {"VOIP", "LANDLINE", "TOLL-FREE", "UNKNOWN"}
          reason0 == IF isCell THEN "U"
                     ELSE IF lineType = "VOIP" THEN "We need a mobile number (no VoIP)."
                     ELSE IF lineType = "LANDLINE"
                          THEN "We need a mobile number (no landlines)."
                     ELSE IF lineType = "TOLL-FREE"
                          THEN "We need a mobile number (no toll-free)."
                     ELSE "Please use a mobile number."
      IN [out |-> PVOutcome(TRUE,
                            IF isCell /\ ~deactivated /\ ~isRejectedType
                            THEN "true" ELSE "false",
                            IF deactivated THEN "This number appears deactivated."
                            ELSE reason0,
                            lineType),
          ttl |-> PV_TTL_OK_MS]

\* callPhoneValidator once the HTTP call has ended: try / catch
callPhoneValidator(outcome) ==
    LET t == callPhoneValidatorTry(outcome)
    IN IF t.out.valid = "THROWN"
       THEN [out |-> PVOutcome(FALSE, "true", "U", "U"), ttl |-> PV_TTL_SOFT_MS]
       ELSE t

(***************************************************************************)
(* The orchestrator (src/lib/validate.ts), in its two generations: "mbl"   *)
(* asks Mailboxlayer and Numverify, "zb" asks ZeroBounce and               *)
(* PhoneValidator after the denylist.  Each operator maps the request      *)
(* record and the cache store to what they are once the code has run up    *)
(* to its next await.                                                      *)
(***************************************************************************)
ENABLE_TRUSTED_EMAIL_FALLBACK == TRUE
ENABLE_MX_FALLBACK == TRUE

Deploys == {"mbl", "zb"}
PipeConfigs == [emailKey : BOOLEAN, phoneKey : BOOLEAN]

EmailCfg(pc) == [key |-> pc.emailKey, blockDisposable |-> FALSE, blockVoip |-> FALSE]
PhoneCfg(pc) == [key |-> pc.phoneKey, blockDisposable |-> FALSE, blockVoip |-> FALSE]

NotValidated == EmailVerdict("U", "U", "U", NoScore)
PhoneNotValidated == PhoneVerdict("U", "U", "U", "U")

\* The request record before anything has run.
\* What the previous request got back from validateEmail and validatePhone,
\* and the provider calls it made (history, for comparing successive calls).
NoPrev == [emailR |-> NotValidated, phoneR |-> PhoneNotValidated,
           nFetch |-> 0, nPhoneFetch |-> 0]

Snapshot(r) == [emailR |-> r.emailR, phoneR |-> r.phoneR,
                nFetch |-> r.nFetch, nPhoneFetch |-> r.nPhoneFetch]

NewRq(route, store) ==
    [pc |-> "email", route |-> route, allowed |-> TRUE, status |-> 0,
     emailR |-> NotValidated, phoneR |-> PhoneNotValidated, pre |-> NotValidated,
     emailEnd |-> "none", phoneEnd |-> "none", threw |-> FALSE,
     errEmail |-> FALSE, errPhone |-> FALSE,
     nRl |-> 0, nDeny |-> 0, nRead |-> 0, nWrite |-> 0, nFetch |-> 0,
     nPhoneFetch |-> 0, nDns |-> 0, cache0 |-> store, prev |-> NoPrev,
     mx |-> "none", phoneResp |-> NoData, late |-> {}, nLate |-> 0,
     nEmailKeyWrite |-> 0, nPhoneKeyWrite |-> 0]

IdleRq == [NewRq("none", EmptyCache) EXCEPT !.pc = "idle"]

\* No overlapping calls (the state of `co` outside SpecCo).
CoIdle == co = [which |-> "email", call |-> [c \in 1..MaxOverlap |-> IdleRq], last |-> 0]

\* No request is served (the state of the pipeline variables outside SpecPipe).
PipeIdle ==
    /\ deploy = "mbl"
    /\ pcfg = [emailKey |-> TRUE, phoneKey |-> TRUE]
    /\ bodyEmail = <<>>
    /\ bodyPhone = <<>>
    /\ bodyCountry = ""
    /\ cache = EmptyCache
    /\ rq = IdleRq
    /\ nReq = 0

normalizeEmail(email) == toLowerCase(trim(email))

EmailKey(email) == <<"email", "", normalizeEmail(email)>>
ZBKey(raw) == <<"zb", "", raw>>
PhoneKey(phone, countryCode) == <<"phone", countryCode, digitsAndPlus(trim(phone))>>
PVKey(norm) == <<"phonevalidator", "", norm>>

\* The route's handling of an exception out of validateEmail / validatePhone:
\* the soft-pass answer of the "mbl" validation route, a 500 elsewhere.
RouteCatch(dep, r) ==
    [r EXCEPT !.pc = "done", !.threw = TRUE,
              !.status = IF dep = "mbl" /\ r.route = "validate" THEN 200 ELSE 500]

\* The response once both fields have been handled.
Respond(r) ==
    [r EXCEPT !.pc = "done",
              !.status = IF r.route = "lead" /\ (r.errEmail \/ r.errPhone) THEN 422 ELSE 200]

\* validateEmail has returned v.
EmailDone(r, v) ==
    [r EXCEPT !.pc = "phone", !.emailR = v,
              !.errEmail = IF r.route = "lead" /\ v.valid = "false" THEN TRUE ELSE @]

\* validatePhone has returned v.
PhoneDone(r, v) ==
    Respond([r EXCEPT !.phoneR = v,
                      !.errPhone = IF r.route = "lead" /\ v.valid = "false" THEN TRUE ELSE @])

\* What the cache keeps of an email verdict, and the verdict rebuilt from it.
EmailStored(dep, v) ==
    IF dep = "mbl" THEN EmailVerdict(v.valid, v.reason, "U", NoScore) ELSE v

EmailFromCache(dep, c) ==
    IF dep = "mbl" THEN EmailVerdict(c.valid, c.reason, "U", NoScore)
    ELSE EmailVerdict(c.valid, c.reason,
                      IF c.confidence = "U" THEN "unknown" ELSE c.confidence, c.score)

\* Mutant of FallbackApplies: every unknown verdict triggers the fallback.
FallbackApplies_anyUnknown(dep, pre) == pre.valid = "null"

\* if (result.valid === null && (result.reason === ... || ...))
FallbackApplies(dep, pre) ==
    /\ pre.valid = "null"
    /\ pre.reason \in (IF dep = "mbl" THEN {"timeout_soft_pass", "provider_missing"}
                       ELSE {ZB_COULD_NOT_VERIFY, ZB_NOT_CONFIGURED})

ProvisionalTrusted(dep) ==
    IF dep = "mbl" THEN EmailVerdict("true", "provisional_trusted", "U", NoScore)
    ELSE EmailVerdict("true", "provisional_trusted", "good", NoScore)

ProvisionalMx(dep) ==
    IF dep = "mbl" THEN EmailVerdict("true", "provisional_mx", "U", NoScore)
    ELSE EmailVerdict("true", "provisional_mx", "medium", NoScore)

\* Whether validateEmail awaits hasMx(domain) after the adapter returned pre.
NeedsMx(dep, pre, norm) ==
    /\ FallbackApplies(dep, pre)
    /\ getDomain(norm) # <<>>
    /\ ~(ENABLE_TRUSTED_EMAIL_FALLBACK /\ getDomain(norm) \in TRUSTED_EMAIL_DOMAINS)
    /\ ENABLE_MX_FALLBACK
    /\ ~isRoleEmail(norm)

\* Mutant of EmailFinish: the entry written is the adapter's verdict, not the
\* final one.
EmailFinish_raw(dep, r, store, email, final, t) ==
    [rq |-> EmailDone([r EXCEPT !.nWrite = @ + 1, !.nEmailKeyWrite = @ + 1], final),
     cache |-> setCache(store, EmailKey(email), EmailStored(dep, r.pre), EMAIL_TTL_MS, t)]

\* setCache(cacheKey, {...finalResult}, 15 min); return finalResult
EmailFinish(dep, r, store, email, final, t) ==
    [rq |-> EmailDone([r EXCEPT !.nWrite = @ + 1, !.nEmailKeyWrite = @ + 1], final),
     cache |-> setCache(store, EmailKey(email), EmailStored(dep, final), EMAIL_TTL_MS, t)]

\* validateEmail from the return of the adapter (pre) on.
EmailAfterAdapter(dep, r, store, email, pre, t) ==
    LET norm == normalizeEmail(email)
        r1 == [r EXCEPT !.pre = pre]
    IN IF IsThrown(pre) THEN [rq |-> RouteCatch(dep, r1), cache |-> store]
       ELSE IF NeedsMx(dep, pre, norm)
       THEN [rq |-> [r1 EXCEPT !.pc = "emailMx", !.nDns = @ + 1], cache |-> store]
       ELSE EmailFinish(dep, r1, store, email,
                        IF FallbackApplies(dep, pre) /\ getDomain(norm) # <<>>
                           /\ ENABLE_TRUSTED_EMAIL_FALLBACK
                           /\ getDomain(norm) \in TRUSTED_EMAIL_DOMAINS
                        THEN ProvisionalTrusted(dep) ELSE pre,
                        t)

\* Mutant of validateEmailLocal: the domain denylist is not consulted.
validateEmailLocal_noDomain(dep, email) ==
    LET conf == IF dep = "mbl" THEN "U" ELSE "low"
    IN IF trim(email) = <<>>
       THEN [done |-> TRUE, deny |-> 0, out |-> EmailVerdict("false", "empty", conf, NoScore)]
       ELSE IF ~isPlausibleEmail(email)
       THEN [done |-> TRUE, deny |-> 0,
             out |-> EmailVerdict("false", "bad_format", conf, NoScore)]
       ELSE IF dep = "mbl"
       THEN [done |-> FALSE, deny |-> 0, out |-> NotValidated]
       ELSE IF isBlockedEmailPrefix(email)
       THEN [done |-> TRUE, deny |-> 1,
             out |-> EmailVerdict("false", "This email address isn't allowed (prefix).",
                                  "low", 0)]
       ELSE [done |-> FALSE, deny |-> 1, out |-> NotValidated]

\* The local checks that open validateEmail: the verdict they return, if any,
\* and the number of denylist checks made.
validateEmailLocal(dep, email) ==
    LET conf == IF dep = "mbl" THEN "U" ELSE "low"
    IN IF trim(email) = <<>>
       THEN [done |-> TRUE, deny |-> 0, out |-> EmailVerdict("false", "empty", conf, NoScore)]
       ELSE IF ~isPlausibleEmail(email)
       THEN [done |-> TRUE, deny |-> 0,
             out |-> EmailVerdict("false", "bad_format", conf, NoScore)]
       ELSE IF dep = "mbl"
       THEN [done |-> FALSE, deny |-> 0, out |-> NotValidated]
       ELSE IF isBlockedEmailPrefix(email)
       THEN [done |-> TRUE, deny |-> 1,
             out |-> EmailVerdict("false", "This email address isn't allowed (prefix).",
                                  "low", 0)]
       ELSE IF isBlockedEmailDomain(email)
       THEN [done |-> TRUE, deny |-> 2,
             out |-> EmailVerdict("false", "This email domain isn't allowed.", "low", 0)]
       ELSE [done |-> FALSE, deny |-> 2, out |-> NotValidated]

\* result = { valid: zbResult.valid, reason, confidence, score: zbResult.score || 0 }
ZBToEmailResult(z) ==
    IF IsThrown(z) THEN Thrown
    ELSE EmailVerdict(z.valid, z.reason, IF z.valid = "true" THEN "good" ELSE "low",
                      IF z.score = NoScore THEN 0 ELSE z.score)

(***************************************************************************)
(* Fixed-window rate limiter (src/lib/rateLimit.ts)                        *)
(***************************************************************************)
Ips == {"", "10.0.0.1"}

\* const key = ip || "unknown";
ClientKey(ip) == IF ip = "" THEN "unknown" ELSE ip

Keys == {ClientKey(ip) : ip \in Ips}

LimitValues == 0..MaxLimit
WindowValues == 1..MaxWindow
MaxCalls == MaxLimit + 2

Max(a, b) == IF a >= b THEN a ELSE b

\* Mutant of WindowExpired: the window is over as soon as now reaches resetAt.
WindowExpired_atReset(ws, key, t) ==
    IF key \notin DOMAIN ws THEN TRUE ELSE t >= ws[key].resetAt

\* if (!window || now > window.resetAt)
WindowExpired(ws, key, t) == IF key \notin DOMAIN ws THEN TRUE ELSE t > ws[key].resetAt

Put(f, k, v) == [x \in DOMAIN f \cup {k} |-> IF x = k THEN v ELSE f[x]]

\* Mutants of rateLimit: plausible slips in the comparison, the remaining
\* computation, the returned resetAt and the window reset.
rateLimit_gt(ws, ip, lim, wms, t) ==
    LET key == ClientKey(ip)
        w == IF WindowExpired(ws, key, t) THEN [count |-> 0, resetAt |-> t + wms] ELSE ws[key]
    IN IF w.count > lim
       THEN [windows |-> Put(ws, key, w),
             res |-> [allowed |-> FALSE, remaining |-> 0, resetAt |-> w.resetAt]]
       ELSE [windows |-> Put(ws, key, [w EXCEPT !.count = @ + 1]),
             res |-> [allowed |-> TRUE, remaining |-> Max(0, lim - (w.count + 1)),
                      resetAt |-> w.resetAt]]

rateLimit_remaining(ws, ip, lim, wms, t) ==
    LET key == ClientKey(ip)
        w == IF WindowExpired(ws, key, t) THEN [count |-> 0, resetAt |-> t + wms] ELSE ws[key]
    IN IF w.count >= lim
       THEN [windows |-> Put(ws, key, w),
             res |-> [allowed |-> FALSE, remaining |-> 0, resetAt |-> w.resetAt]]
       ELSE [windows |-> Put(ws, key, [w EXCEPT !.count = @ + 1]),
             res |-> [allowed |-> TRUE, remaining |-> Max(0, lim - w.count),
                      resetAt |-> w.resetAt]]

rateLimit_keepCount(ws, ip, lim, wms, t) ==
    LET key == ClientKey(ip)
        w == IF key \notin DOMAIN ws THEN [count |-> 0, resetAt |-> t + wms]
             ELSE IF t > ws[key].resetAt THEN [ws[key] EXCEPT !.resetAt = t + wms]
             ELSE ws[key]
    IN IF w.count >= lim
       THEN [windows |-> Put(ws, key, w),
             res |-> [allowed |-> FALSE, remaining |-> 0, resetAt |-> w.resetAt]]
       ELSE [windows |-> Put(ws, key, [w EXCEPT !.count = @ + 1]),
             res |-> [allowed |-> TRUE, remaining |-> Max(0, lim - (w.count + 1)),
                      resetAt |-> w.resetAt]]

\* Mutant of rateLimit: one window for all clients (the key is not the ip).
rateLimit_oneWindow(ws, ip, lim, wms, t) ==
    LET key == "unknown"
        w == IF WindowExpired(ws, key, t) THEN [count |-> 0, resetAt |-> t + wms] ELSE ws[key]
    IN IF w.count >= lim
       THEN [windows |-> Put(ws, key, w),
             res |-> [allowed |-> FALSE, remaining |-> 0, resetAt |-> w.resetAt]]
       ELSE [windows |-> Put(ws, key, [w EXCEPT !.count = @ + 1]),
             res |-> [allowed |-> TRUE, remaining |-> Max(0, lim - (w.count + 1)),
                      resetAt |-> w.resetAt]]

\* Mutant of rateLimit: the count is incremented before the check, so a denied
\* call is counted too.
rateLimit_countDenied(ws, ip, lim, wms, t) ==
    LET key == ClientKey(ip)
        w == IF WindowExpired(ws, key, t) THEN [count |-> 0, resetAt |-> t + wms] ELSE ws[key]
    IN IF w.count >= lim
       THEN [windows |-> Put(ws, key, [w EXCEPT !.count = @ + 1]),
             res |-> [allowed |-> FALSE, remaining |-> 0, resetAt |-> w.resetAt]]
       ELSE [windows |-> Put(ws, key, [w EXCEPT !.count = @ + 1]),
             res |-> [allowed |-> TRUE, remaining |-> Max(0, lim - (w.count + 1)),
                      resetAt |-> w.resetAt]]

\* rateLimit(ip, limit, windowMs) at Date.now() = t on the map ws: the map after
\* the call and the value returned.
rateLimit(ws, ip, lim, wms, t) ==
    LET key == ClientKey(ip)
        w == IF WindowExpired(ws, key, t) THEN [count |-> 0, resetAt |-> t + wms] ELSE ws[key]
    IN IF w.count >= lim
       THEN [windows |-> Put(ws, key, w),
             res |-> [allowed |-> FALSE, remaining |-> 0, resetAt |-> w.resetAt]]
       ELSE [windows |-> Put(ws, key, [w EXCEPT !.count = @ + 1]),
             res |-> [allowed |-> TRUE, remaining |-> Max(0, lim - (w.count + 1)),
                      resetAt |-> w.resetAt]]

NoCalls == [k \in {} |-> 0]

NoOutcome == Failure("none")
NoVerdict == EmailVerdict("none", "", "", NoScore)

\* No adapter call under way (the state of the adapter variables outside
\* SpecAdapter).
AdapterIdle ==
    /\ adName = "mailboxlayer"
    /\ adCfg = [key |-> TRUE, blockDisposable |-> FALSE, blockVoip |-> FALSE]
    /\ adCountry = ""
    /\ adPc = "idle"
    /\ adResp = NoOutcome
    /\ adOut = NoVerdict
    /\ adNet = 0
    /\ adAborted = FALSE

InitRL ==
    /\ CacheIdle
    /\ FormIdle
    /\ CoIdle
    /\ now = 0
    /\ windows = NoCalls
    /\ limit \in LimitValues
    /\ windowMs \in WindowValues
    /\ rlRes = NoCalls
    /\ rlAt = NoCalls
    /\ winCalls = NoCalls
    /\ winFirst = NoCalls
    /\ resetFrom = NoCalls
    /\ AdapterIdle
    /\ PipeIdle

\* One call rateLimit(ip, limit, windowMs); the bookkeeping variables record
\* its position in the client's window for the properties below.
RateLimitCall(ip) ==
    LET key == ClientKey(ip)
        fresh == WindowExpired(windows, key, now)
        out == rateLimit(windows, ip, limit, windowMs, now)
    IN /\ IF fresh THEN TRUE ELSE winCalls[key] < MaxCalls
       /\ windows' = out.windows
       /\ rlRes' = Put(rlRes, key, out.res)
       /\ rlAt' = Put(rlAt, key, now)
       /\ winCalls' = Put(winCalls, key, IF fresh THEN 1 ELSE winCalls[key] + 1)
       /\ winFirst' = IF fresh THEN Put(winFirst, key, out.res) ELSE winFirst
       /\ resetFrom' = IF fresh
                       THEN Put(resetFrom, key,
                                IF key \in DOMAIN windows THEN windows[key].count ELSE -1)
                       ELSE resetFrom
       /\ UNCHANGED <<now, limit, windowMs, adVars, pipeVars, chVars, formVars, coVars>>

\* Time passes between calls.
Tick ==
    /\ now < MaxTime
    /\ now' = now + 1
    /\ UNCHANGED <<windows, limit, windowMs, rlRes, rlAt, winCalls, winFirst, resetFrom>>
    /\ UNCHANGED <<adVars, pipeVars, chVars, formVars, coVars>>

NextRL ==
    \/ \E ip \in Ips : RateLimitCall(ip)
    \/ Tick

SpecRL == InitRL /\ [][NextRL]_vars

(***************************************************************************)
(* SpecAdapter: one adapter call                                           *)
(***************************************************************************)
Adapters == {"mailboxlayer", "numverify", "zerobounce"}

OutcomesOf(name) ==
    IF name = "mailboxlayer" THEN EmailOutcomes
    ELSE IF name = "numverify" THEN PhoneOutcomes
    ELSE ZBOutcomes

AdapterResult(name, cfg, country, outcome) ==
    IF name = "mailboxlayer" THEN mailboxlayerCheck(cfg, outcome)
    ELSE IF name = "numverify" THEN numverifyCheck(cfg, country, outcome)
    ELSE zerobounceCheck(cfg, outcome)

RLIdle ==
    /\ now = 0
    /\ windows = NoCalls
    /\ limit = 0
    /\ windowMs = 1
    /\ rlRes = NoCalls
    /\ rlAt = NoCalls
    /\ winCalls = NoCalls
    /\ winFirst = NoCalls
    /\ resetFrom = NoCalls

InitAdapter ==
    /\ CacheIdle
    /\ FormIdle
    /\ CoIdle
    /\ adName \in Adapters
    /\ adCfg \in Configs
    /\ adCountry \in (IF adName = "numverify" THEN CountryHints ELSE {""})
    /\ adPc = "idle"
    /\ adResp = NoOutcome
    /\ adOut = NoVerdict
    /\ adNet = 0
    /\ adAborted = FALSE
    /\ RLIdle
    /\ PipeIdle

\* The adapter is called: without a credential it returns at once, otherwise
\* it arms the abort timer and issues the HTTP request.
AdapterCall ==
    /\ adPc = "idle"
    /\ IF NeedsFetch(adCfg)
       THEN /\ adPc' = "fetching"
            /\ adNet' = adNet + 1
            /\ UNCHANGED adOut
       ELSE /\ adPc' = "returned"
            /\ adOut' = AdapterResult(adName, adCfg, adCountry, NoOutcome)
            /\ UNCHANGED adNet
    /\ UNCHANGED <<adName, adCfg, adCountry, adResp, adAborted, rlVars, pipeVars, chVars, formVars, coVars>>

\* The HTTP call ends (the abort timer firing first is the outcome "timeout")
\* and the adapter returns.
AdapterSettle ==
    /\ adPc = "fetching"
    /\ \E o \in OutcomesOf(adName) :
        /\ adResp' = o
        /\ adAborted' = (o.kind = "timeout")
        /\ adOut' = AdapterResult(adName, adCfg, adCountry, o)
    /\ adPc' = "returned"
    /\ UNCHANGED <<adName, adCfg, adCountry, adNet, rlVars, pipeVars, chVars, formVars, coVars>>

NextAdapter ==
    \/ AdapterCall
    \/ AdapterSettle

SpecAdapter == InitAdapter /\ [][NextAdapter]_vars

(***************************************************************************)
(* SpecPipe: the endpoints.  A handler runs from one await to the next in  *)
(* one step.  The requests arrive within one minute: Date.now() stays      *)
(* inside the rate limiter's window and under every TTL.                   *)
(***************************************************************************)
RATE_LIMIT_PER_MIN == 10
RATE_WINDOW_MS == 60 * 1000

\* The bodies submitted: every email with a plausible US number, and every
\* phone and country with a plausible email.
EmailA == <<"a", "@", "m", "e", ".", "c", "o", "m">>
PhoneA == <<"2", "0", "2", "5", "5", "5", "0", "1", "2", "3">>

Emails ==
    {<<>>,
     <<"a", "@", "b">>,
     <<"a", "@", "b", ".">>,
     EmailA,
     <<"a", "@", "a", "b", ".", "c", "o">>,
     <<"i", "n", "f", "o", "@", "a", "b", ".", "c", "o">>,
     <<"a", "@", "r", "h", "y", "t", "a", ".", "c", "o", "m">>,
     <<"m", "o", "t", "i", "v", "a", "t", "i", "o", "n", ".", "u", "s", "a", "@",
       "a", "b", ".", "c", "o">>}

Phones ==
    {<<>>,
     <<"5", "5", "5">>,
     PhoneA,
     <<"2", "0", "2", "5", "1", "1", "0", "1", "2", "3">>}

Countries == {"", "GB"}

\* Numbers submitted with country US: a well-formed one, with and without the
\* leading country digit, and ones with an exchange code 511, 515 and 155.
NanpPhones ==
    {PhoneA,
     <<"1", "2", "0", "2", "5", "5", "5", "1", "9", "1", "1">>,
     <<"2", "0", "2", "5", "1", "1", "0", "1", "2", "3">>,
     <<"2", "0", "2", "5", "1", "5", "0", "1", "2", "3">>,
     <<"2", "0", "2", "1", "5", "5", "0", "1", "2", "3">>}

Bodies ==
    {[email |-> e, phone |-> PhoneA, country |-> ""] : e \in Emails}
        \cup {[email |-> EmailA, phone |-> p, country |-> c] : p \in Phones, c \in Countries}
        \cup {[email |-> EmailA, phone |-> p, country |-> "US"] : p \in NanpPhones}

\* The client whose earlier calls the rate limiter holds when the model starts.
Client == "10.0.0.1"

\* Calls already made by the client in the current minute when the model starts.
PriorCalls == {0, RATE_LIMIT_PER_MIN - 1, RATE_LIMIT_PER_MIN}

PipeEmailOutcomes(dep) ==
    {Failure(k) : k \in FailureKinds} \cup
    (IF dep = "mbl"
     THEN {Json(EmailErrorEnvelope),
           Json(EmailFields("T", "T", "T", "F", "F", "F", 80, "U")),
           Json(EmailFields("T", "T", "F", "F", "F", "F", 80, "U")),
           Json(EmailFields("T", "T", "T", "T", "F", "F", 49, "U"))}
     ELSE {Json(ZBErrorEnvelope),
           Json(ZBFields("valid", "U", "U")),
           Json(ZBFields("invalid", "mailbox_not_found", "U")),
           Json(ZBFields("catch-all", "U", "U"))})

PipePhoneOutcomes(dep) ==
    {Failure(k) : k \in FailureKinds} \cup
    (IF dep = "mbl"
     THEN {Json(PhoneErrorEnvelope),
           Json(PhoneFields("T", "US", "mobile", "U")),
           Json(PhoneFields("T", "GB", "voip", "U")),
           Json(PhoneFields("F", "U", "U", "U"))}
     ELSE {Json(PVFields("F", "U", "U", "U")),
           Json(PVFields("T", "200", "CELL PHONE", "F")),
           Json(PVFields("T", "200", "LANDLINE", "F")),
           Json(PVFields("T", "200", "VOIP", "F")),
           Json(PVFields("T", "200", "CELL PHONE", "T"))})

\* function getIp(req): the x-forwarded-for / x-real-ip header, else "unknown"
getIp(header) == IF header = "" THEN "unknown" ELSE header

InitPipe ==
    /\ CacheIdle
    /\ FormIdle
    /\ CoIdle
    /\ now = 0
    /\ \E n \in PriorCalls :
          windows = IF n = 0 THEN NoCalls
                    ELSE [k \in {Client} |-> [count |-> n, resetAt |-> RATE_WINDOW_MS]]
    /\ limit = RATE_LIMIT_PER_MIN
    /\ windowMs = RATE_WINDOW_MS
    /\ rlRes = NoCalls
    /\ rlAt = NoCalls
    /\ winCalls = NoCalls
    /\ winFirst = NoCalls
    /\ resetFrom = NoCalls
    /\ AdapterIdle
    /\ deploy \in Deploys
    /\ pcfg \in PipeConfigs
    /\ \E b \in Bodies :
          /\ bodyEmail = b.email
          /\ bodyPhone = b.phone
          /\ bodyCountry = b.country
    /\ cache = EmptyCache
    /\ rq = IdleRq
    /\ nReq = 0

pipeFixed == <<limit, windowMs, rlRes, rlAt, winCalls, winFirst, resetFrom, adVars,
               deploy, pcfg, bodyEmail, bodyPhone, bodyCountry, chVars, formVars, coVars>>

\* Mutant of Gate: the handler goes on although the rate limiter denied.
Gate_ignore(r) == r

\* if (!rl.allowed) return 429
Gate(r) == IF ~r.allowed THEN [r EXCEPT !.pc = "done", !.status = 429] ELSE r

\* POST /api/validate arrives: rateLimit runs first.
ReceiveValidate(header) ==
    /\ rq.pc \in {"idle", "done"}
    /\ nReq < MaxRequests
    /\ LET out == rateLimit(windows, getIp(header), RATE_LIMIT_PER_MIN, RATE_WINDOW_MS, now)
       IN /\ windows' = out.windows
          /\ rq' = Gate([NewRq("validate", cache) EXCEPT !.nRl = 1,
                                                         !.allowed = out.res.allowed,
                                                         !.prev = Snapshot(rq)])
    /\ nReq' = nReq + 1
    /\ UNCHANGED <<now, cache, pipeFixed>>

\* POST /api/lead arrives: required fields, then the blocked-prefix short-circuit.
ReceiveLead ==
    /\ rq.pc \in {"idle", "done"}
    /\ nReq < MaxRequests
    /\ LET r0 == [NewRq("lead", cache) EXCEPT !.errEmail = (trim(bodyEmail) = <<>>),
                                              !.errPhone = (trim(bodyPhone) = <<>>),
                                              !.nDeny = 1,
                                              !.prev = Snapshot(rq)]
       IN rq' = IF isBlockedEmailPrefix(bodyEmail)
                THEN [r0 EXCEPT !.pc = "done", !.status = 400]
                ELSE r0
    /\ nReq' = nReq + 1
    /\ UNCHANGED <<now, windows, cache, pipeFixed>>

\* validateEmail(email) up to its first await (or its return).
validateEmailStart(dep, conf, r, store, email, t) ==
    LET local == validateEmailLocal(dep, email)
        r1 == [r EXCEPT !.nDeny = @ + local.deny]
        key == EmailKey(email)
        r2 == [r1 EXCEPT !.nRead = @ + 1]
        store2 == getCacheStore(store, key, t)
        raw == normalizeEmail(email)
    IN IF local.done THEN [rq |-> EmailDone(r1, local.out), cache |-> store]
       ELSE IF cacheHit(store, key, t)
       THEN [rq |-> EmailDone([r2 EXCEPT !.emailEnd = "cached"],
                               EmailFromCache(dep, store[key].value)),
             cache |-> store2]
       ELSE IF dep = "mbl"
       THEN IF ~NeedsFetch(EmailCfg(conf))
            THEN EmailAfterAdapter(dep, [r2 EXCEPT !.emailEnd = "nokey"], store2, email,
                                   mailboxlayerCheck(EmailCfg(conf), NoOutcome), t)
            ELSE [rq |-> [r2 EXCEPT !.pc = "emailFetch", !.nFetch = @ + 1],
                  cache |-> store2]
       ELSE \* zerobounceCheck(normalizedEmail, ip): its own cache first
            LET r3 == [r2 EXCEPT !.nRead = @ + 1]
                store3 == getCacheStore(store2, ZBKey(raw), t)
            IN IF cacheHit(store2, ZBKey(raw), t)
               THEN EmailAfterAdapter(dep, [r3 EXCEPT !.emailEnd = "cached"], store3, email,
                                      ZBToEmailResult(store2[ZBKey(raw)].value), t)
               ELSE IF ~NeedsFetch(EmailCfg(conf))
               THEN EmailAfterAdapter(dep, [r3 EXCEPT !.emailEnd = "nokey"], store3, email,
                                      ZBToEmailResult(zerobounceCheck(EmailCfg(conf), NoOutcome)),
                                      t)
               ELSE [rq |-> [r3 EXCEPT !.pc = "emailFetch", !.nFetch = @ + 1],
                     cache |-> store3]

\* The route reaches the email field.
EmailStart ==
    /\ rq.pc = "email"
    /\ LET e == trim(bodyEmail)
           s == IF deploy = "mbl" /\ rq.route = "validate" /\ bodyEmail = <<>>
                THEN \* if (email) ... : validateEmail is not called
                     [rq |-> [rq EXCEPT !.pc = "phone"], cache |-> cache]
                ELSE IF deploy = "mbl" /\ rq.route = "validate"
                        /\ (indexOf(e, "@") = 0 \/ endsWith(e, <<".">>))
                THEN \* the quick heuristic answers bad_format for both fields
                     [rq |-> [rq EXCEPT !.pc = "done", !.status = 200,
                                        !.emailR = EmailVerdict("false", "bad_format", "U",
                                                                NoScore)],
                      cache |-> cache]
                ELSE validateEmailStart(deploy, pcfg, rq, cache, bodyEmail, now)
       IN /\ rq' = s.rq
          /\ cache' = s.cache
    /\ UNCHANGED <<now, windows, nReq, pipeFixed>>

\* validateEmail from the end of the provider's HTTP call (outcome o) to its
\* next await or its return.
validateEmailResume(dep, conf, r, store, email, o, t) ==
    LET r1 == [r EXCEPT !.emailEnd = o.kind,
                        !.late = IF o.kind = "timeout" THEN @ \cup {"email"} ELSE @]
        raw == normalizeEmail(email)
        z == zerobounceCheck(EmailCfg(conf), o)
        zbStored == ~IsThrown(zerobounceTry(o))
    IN IF dep = "mbl"
       THEN EmailAfterAdapter(dep, r1, store, email,
                              mailboxlayerCheck(EmailCfg(conf), o), t)
       ELSE EmailAfterAdapter(
              dep,
              IF zbStored THEN [r1 EXCEPT !.nWrite = @ + 1] ELSE r1,
              IF zbStored
              THEN setCache(store, ZBKey(raw), z,
                            IF z.valid = "true" THEN ZB_TTL_VALID_MS
                            ELSE ZB_TTL_OTHER_MS, t)
              ELSE store,
              email, ZBToEmailResult(z), t)

\* validateEmail from the end of hasMx(domain) to its return.
validateEmailMx(dep, r, store, email, mxEnd, t) ==
    LET hasMxRecords == mxEnd = "found"
        r1 == [r EXCEPT !.mx = mxEnd,
                        !.late = IF mxEnd = "timeout" THEN @ \cup {"mx"} ELSE @]
    IN EmailFinish(dep, r1, store, email,
                   IF hasMxRecords THEN ProvisionalMx(dep) ELSE r.pre, t)

MxEnds == {"found", "absent", "timeout"}

\* The email provider's HTTP call ends and validateEmail goes on.
EmailSettle ==
    /\ rq.pc = "emailFetch"
    /\ \E o \in PipeEmailOutcomes(deploy) :
        LET s == validateEmailResume(deploy, pcfg, rq, cache, bodyEmail, o, now)
        IN /\ rq' = s.rq
           /\ cache' = s.cache
    /\ UNCHANGED <<now, windows, nReq, pipeFixed>>

\* hasMx(domain) settles: records found, or none / DNS error / 1500 ms elapsed.
MxSettle ==
    /\ rq.pc = "emailMx"
    /\ \E mxEnd \in MxEnds :
        LET s == validateEmailMx(deploy, rq, cache, bodyEmail, mxEnd, now)
        IN /\ rq' = s.rq
           /\ cache' = s.cache
    /\ UNCHANGED <<now, windows, nReq, pipeFixed>>

\* What the cache keeps of a phone verdict, and the verdict rebuilt from it.
PhoneStored(dep, v) ==
    IF dep = "mbl" THEN PhoneVerdict(v.valid, v.reason, "U", "U") ELSE v

PhoneFromCache(dep, c) ==
    IF dep = "mbl" THEN PhoneVerdict(c.valid, c.reason, "U", "U")
    ELSE PhoneVerdict(c.valid, c.reason,
                      IF c.confidence = "U" THEN "unknown" ELSE c.confidence, c.lineType)

\* result = { valid: phoneResult.valid, reason, confidence: ok ? "good" : "unknown", ... }
PVToPhoneResult(o) ==
    PhoneVerdict(o.valid, o.reason, IF o.ok THEN "good" ELSE "unknown", o.lineType)

\* setCache(cacheKey, {...result}, 15 min); return result
PhoneFinish(dep, r, store, phone, countryCode, v, t) ==
    IF IsThrown(v) THEN [rq |-> RouteCatch(dep, r), cache |-> store]
    ELSE [rq |-> PhoneDone([r EXCEPT !.nWrite = @ + 1, !.nPhoneKeyWrite = @ + 1], v),
          cache |-> setCache(store, PhoneKey(phone, countryCode), PhoneStored(dep, v),
                             PHONE_TTL_MS, t)]

\* validatePhone(phone, country) up to its first await (or its return).
validatePhoneStart(dep, conf, r, store, phone, country, t) ==
    LET lowConf == IF dep = "mbl" THEN "U" ELSE "low"
        countryCode == ToUpperCase(country)
        key == PhoneKey(phone, countryCode)
        r2 == [r EXCEPT !.nRead = @ + 1]
        store2 == getCacheStore(store, key, t)
        pv == phonevalidatorPre(conf.phoneKey, trim(phone), countryCode)
    IN IF trim(phone) = <<>>
       THEN [rq |-> PhoneDone(r, PhoneVerdict("false", "empty", lowConf, "U")),
             cache |-> store]
       ELSE IF ~isPlausiblePhoneBare(phone)
       THEN [rq |-> PhoneDone(r, PhoneVerdict("false", "bad_format", lowConf, "U")),
             cache |-> store]
       ELSE IF cacheHit(store, key, t)
       THEN [rq |-> PhoneDone([r2 EXCEPT !.phoneEnd = "cached"],
                               PhoneFromCache(dep, store[key].value)),
             cache |-> store2]
       ELSE IF dep = "mbl"
       THEN IF ~NeedsFetch(PhoneCfg(conf))
            THEN PhoneFinish(dep, [r2 EXCEPT !.phoneEnd = "nokey"], store2, phone, countryCode,
                             numverifyCheck(PhoneCfg(conf), countryCode, NoOutcome), t)
            ELSE [rq |-> [r2 EXCEPT !.pc = "phoneFetch", !.nPhoneFetch = @ + 1],
                  cache |-> store2]
       ELSE IF ~pv.call
       THEN PhoneFinish(dep, [r2 EXCEPT !.phoneEnd = IF conf.phoneKey THEN "local" ELSE "nokey"],
                        store2, phone, countryCode, PVToPhoneResult(pv.out), t)
       ELSE \* callPhoneValidator(norm): its own cache first
            LET r3 == [r2 EXCEPT !.nRead = @ + 1]
                store3 == getCacheStore(store2, PVKey(pv.norm), t)
            IN IF cacheHit(store2, PVKey(pv.norm), t)
               THEN PhoneFinish(dep, [r3 EXCEPT !.phoneEnd = "cached"], store3, phone,
                                countryCode,
                                PVToPhoneResult(store2[PVKey(pv.norm)].value), t)
               ELSE [rq |-> [r3 EXCEPT !.pc = "phoneFetch", !.nPhoneFetch = @ + 1],
                     cache |-> store3]

\* The route reaches the phone field.
PhoneStart ==
    /\ rq.pc = "phone"
    /\ LET s == IF deploy = "mbl" /\ rq.route = "validate" /\ bodyPhone = <<>>
                THEN \* if (phone) ... : validatePhone is not called
                     [rq |-> Respond(rq), cache |-> cache]
                ELSE validatePhoneStart(deploy, pcfg, rq, cache, bodyPhone, bodyCountry, now)
       IN /\ rq' = s.rq
          /\ cache' = s.cache
    /\ UNCHANGED <<now, windows, nReq, pipeFixed>>

\* validatePhone from the end o of the provider's HTTP call to its return.
validatePhoneResume(dep, conf, r, store, phone, country, o, t) ==
    LET r1 == [r EXCEPT !.phoneEnd = o.kind, !.phoneResp = o.data,
                        !.late = IF o.kind = "timeout" THEN @ \cup {"phone"} ELSE @]
        countryCode == ToUpperCase(country)
        pv == phonevalidatorPre(conf.phoneKey, trim(phone), countryCode)
        cp == callPhoneValidator(o)
    IN IF dep = "mbl"
       THEN PhoneFinish(dep, r1, store, phone, countryCode,
                        numverifyCheck(PhoneCfg(conf), countryCode, o), t)
       ELSE PhoneFinish(dep, [r1 EXCEPT !.nWrite = @ + 1],
                        setCache(store, PVKey(pv.norm), cp.out, cp.ttl, t),
                        phone, countryCode, PVToPhoneResult(cp.out), t)

\* The phone provider's HTTP call ends and validatePhone goes on.
PhoneSettle ==
    /\ rq.pc = "phoneFetch"
    /\ \E o \in PipePhoneOutcomes(deploy) :
        LET s == validatePhoneResume(deploy, pcfg, rq, cache, bodyPhone, bodyCountry, o, now)
        IN /\ rq' = s.rq
           /\ cache' = s.cache
    /\ UNCHANGED <<now, windows, nReq, pipeFixed>>

\* Mutant of discardLate: a late MX answer with records upgrades the verdict
\* and rewrites the cache entry; a late provider answer rewrites the entry.
discardLate_applies(dep, r, store, email, which, answer, t) ==
    LET r1 == [r EXCEPT !.late = @ \ {which}, !.nLate = @ + 1]
    IN IF which = "mx" /\ answer
       THEN [rq |-> [r1 EXCEPT !.emailR = ProvisionalMx(dep)],
             cache |-> setCache(store, EmailKey(email), EmailStored(dep, ProvisionalMx(dep)),
                                EMAIL_TTL_MS, t)]
       ELSE [rq |-> r1, cache |-> Drop(store, EmailKey(email))]

\* What is left of an operation that lost its race when its answer arrives:
\* the aborted fetch has already rejected and Promise.race has already
\* settled, so the answer reaches no code that writes the verdict or the cache.
discardLate(dep, r, store, email, which, answer, t) ==
    [rq |-> [r EXCEPT !.late = @ \ {which}, !.nLate = @ + 1], cache |-> store]

\* The answer of a provider call or MX lookup arrives after its timer expired.
LateArrival ==
    /\ rq.late # {}
    /\ \E which \in rq.late, answer \in BOOLEAN :
        LET s == discardLate(deploy, rq, cache, bodyEmail, which, answer, now)
        IN /\ rq' = s.rq
           /\ cache' = s.cache
    /\ UNCHANGED <<now, windows, nReq, pipeFixed>>

NextPipe ==
    \/ \E header \in Ips : ReceiveValidate(header)
    \/ ReceiveLead
    \/ EmailStart
    \/ EmailSettle
    \/ MxSettle
    \/ PhoneStart
    \/ PhoneSettle
    \/ LateArrival

SpecPipe == InitPipe /\ [][NextPipe]_vars

(***************************************************************************)
(* Rate limiter properties                                                 *)
(***************************************************************************)

\* C1: with limit >= 1, among the calls of one window exactly the first `limit`
\* are allowed; every later call of the window is denied with remaining = 0.
C1_FirstLimitCallsAllowed ==
    \A k \in DOMAIN rlRes :
        limit >= 1 =>
            /\ rlRes[k].allowed <=> (winCalls[k] <= limit)
            /\ ~rlRes[k].allowed => rlRes[k].remaining = 0

C1_Witness ==
    \E k \in DOMAIN rlRes :
        /\ limit >= 2
        /\ winCalls[k] = limit + 2
        /\ ~rlRes[k].allowed
        /\ rlRes[k].remaining = 0

\* C2: the k-th allowed call of a window returns remaining = limit - k (so 0 on
\* the limit-th call), and every call of a window reports the resetAt that the
\* first call of the window reported.
C2_RemainingCountsDown ==
    \A k \in DOMAIN rlRes :
        /\ rlRes[k].allowed => rlRes[k].remaining = limit - winCalls[k]
        /\ rlRes[k].resetAt = winFirst[k].resetAt

C2_Witness ==
    \E k \in DOMAIN rlRes :
        /\ limit >= 2
        /\ winCalls[k] = limit
        /\ rlRes[k].allowed
        /\ rlRes[k].remaining = 0
        /\ rlAt[k] > 0
        /\ rlRes[k].resetAt = winFirst[k].resetAt

\* C3: with limit >= 1, the call that finds no window, or finds now > resetAt,
\* (re)creates the window and is allowed: it returns remaining = limit - 1 and
\* resetAt = now + windowMs, and leaves the window at count 1; this includes
\* the first call after an exhausted window has elapsed.
C3_ResetAfterElapsed ==
    \A k \in DOMAIN rlRes :
        (limit >= 1 /\ winCalls[k] = 1) =>
            /\ rlRes[k] = [allowed |-> TRUE, remaining |-> limit - 1,
                           resetAt |-> rlAt[k] + windowMs]
            /\ windows[k] = [count |-> 1, resetAt |-> rlAt[k] + windowMs]

C3_Witness ==
    \E k \in DOMAIN rlRes :
        /\ limit >= 1
        /\ winCalls[k] = 1
        /\ resetFrom[k] = limit
        /\ rlRes[k].allowed
        /\ rlRes[k].remaining = limit - 1

(***************************************************************************)
(* Adapter properties (SpecAdapter)                                        *)
(***************************************************************************)
AdapterReturned == adPc = "returned"

\* The HTTP call ended in a network failure, a body that is no JSON, an error
\* envelope or a body lacking expected fields.
ProviderFailed ==
    /\ adResp # NoOutcome
    /\ adResp.kind # "timeout"
    /\ IF adResp.kind = "json"
       THEN adResp.data \in {NoData, EmailErrorEnvelope, PhoneErrorEnvelope, ZBErrorEnvelope}
                              \cup MalformedEmailData \cup MalformedPhoneData
       ELSE TRUE

ProviderUnavailableReasons == {"provider_missing", "provider_error", "timeout_soft_pass"}

\* C6: when the provider call ends in a network failure, a JSON parse failure,
\* an error envelope or a malformed response, the adapter returns valid =
\* unknown with a ProviderUnavailable reason code, never valid = false.
C6_FailureYieldsUnknown ==
    (AdapterReturned /\ ProviderFailed) =>
        /\ adOut.valid = "null"
        /\ adOut.reason \in ProviderUnavailableReasons

\* C8: without a provider credential the adapter returns valid = unknown with
\* reason provider_missing and issues no HTTP request.
C8_MissingCredential ==
    (AdapterReturned /\ ~adCfg.key) =>
        /\ adOut.valid = "null"
        /\ adOut.reason = "provider_missing"
        /\ adNet = 0

\* The hard-block signals of a well-formed Mailboxlayer response under the
\* configured policy.
HardBlockSignal(d, cfg) ==
    \/ d.format_valid = "F"
    \/ d.mx_found = "F"
    \/ d.smtp_check = "F"
    \/ (d.disposable = "T" /\ cfg.blockDisposable)
    \/ (d.role = "T" /\ BLOCK_ROLE_EMAILS)

WellFormedEmailReturn ==
    /\ adName = "mailboxlayer"
    /\ AdapterReturned
    /\ adResp.kind = "json"
    /\ adResp.data \in WellFormedEmailData

C7_TimeoutSoftPass ==
    (AdapterReturned /\ adResp.kind = "timeout") =>
        /\ adAborted
        /\ adNet = 1
        /\ adOut.valid = "null"
        /\ adOut.reason = "timeout_soft_pass"

(***************************************************************************)
(* Endpoint properties (SpecPipe)                                          *)
(***************************************************************************)
NoDownstreamWork(r) ==
    /\ r.nDeny = 0
    /\ r.nRead = 0
    /\ r.nWrite = 0
    /\ r.nFetch = 0
    /\ r.nPhoneFetch = 0
    /\ r.nDns = 0

\* C4: the validation endpoint calls the rate limiter once, before anything
\* else; a request the rate limiter denied is answered 429 at once, having made
\* no denylist check, cache read, cache write, provider call or DNS lookup, and
\* it leaves the cache as it found it; only a denied request is answered 429.
C4_DeniedDoesNothing ==
    (rq.route = "validate" /\ rq.pc # "idle") =>
        /\ rq.nRl = 1
        /\ ~rq.allowed =>
              /\ rq.pc = "done"
              /\ rq.status = 429
              /\ NoDownstreamWork(rq)
              /\ cache = rq.cache0
        /\ rq.status = 429 => ~rq.allowed

C4_Witness ==
    /\ rq.route = "validate"
    /\ rq.pc = "done"
    /\ rq.status = 429
    /\ ~rq.allowed
    /\ nReq = 2
    /\ cache # EmptyCache
    /\ cache = rq.cache0

Verdicts == {"true", "false", "null"}

ProviderUnavailable(end) == end \in {"nokey", "net_fail", "timeout"}

\* C9: when the provider is unreachable, times out or is unconfigured, the
\* verdict of validateEmail / validatePhone is unknown or an upgraded true,
\* never false; and the lead endpoint, once it has revalidated both fields,
\* holds an error for a field exactly when that field's verdict is valid = false,
\* and answers 422 exactly when it holds an error.
C9_UncertaintyNeverBlocks ==
    /\ (rq.pc \in {"phone", "phoneFetch", "done"} /\ ProviderUnavailable(rq.emailEnd))
          => rq.emailR.valid \in {"null", "true"}
    /\ (rq.pc = "done" /\ ProviderUnavailable(rq.phoneEnd))
          => rq.phoneR.valid \in {"null", "true"}
    /\ (rq.route = "lead" /\ rq.pc = "done" /\ rq.status \in {200, 422}) =>
          /\ rq.errEmail <=> (rq.emailR.valid = "false")
          /\ rq.errPhone <=> (rq.phoneR.valid = "false")
          /\ (rq.status = 422) <=> (rq.errEmail \/ rq.errPhone)

\* The confidence the score stands for: good from 0.80, medium from 0.50, low
\* below, unknown without a score.
ScoreConfidence(score) ==
    IF score = NoScore THEN "unknown"
    ELSE IF score >= 80 THEN "good"
    ELSE IF score >= 50 THEN "medium"
    ELSE "low"

\* C11: in every email verdict a request obtains, confidence is the fixed
\* function of score (good from 0.80, medium from 0.50, low below, unknown when
\* the verdict carries no score); a verdict with score >= 0.80 that is not a
\* hard block has valid = true and confidence = good.
C11_ConfidenceFromScore ==
    rq.emailR.valid \in Verdicts =>
        /\ rq.emailR.confidence = ScoreConfidence(rq.emailR.score)
        /\ (rq.emailR.score >= 80 /\ rq.emailR.valid # "false") =>
              (rq.emailR.valid = "true" /\ rq.emailR.confidence = "good")

\* The provider could not answer: no credential, a failed or timed-out call, a
\* body that is no JSON, an error envelope, or a field of the wrong type.
ProviderErrored ==
    IF ~adCfg.key THEN TRUE
    ELSE IF adResp.kind \in FailureKinds THEN TRUE
    ELSE adResp.data \in {EmailErrorEnvelope} \cup MalformedPhoneData

\* A hard-block or policy rule fired on a well-formed response.
BlockRuleFired ==
    /\ adCfg.key
    /\ adResp.kind = "json"
    /\ IF adName = "mailboxlayer"
       THEN adResp.data \in WellFormedEmailData /\ HardBlockSignal(adResp.data, adCfg)
       ELSE IF adName = "numverify"
       THEN /\ adResp.data \in WellFormedPhoneData
            /\ \/ adResp.data.valid = "F"
               \/ (adCountry # "" /\ ToUpperCase(adResp.data.country_code) # adCountry)
               \/ (ToLowerCase(adResp.data.line_type) = "voip" /\ adCfg.blockVoip)
       ELSE FALSE

\* C12: every verdict an adapter returns has valid true, false or unknown;
\* valid is unknown only with reason timeout_soft_pass, provider_missing or
\* provider_error and only when the provider was unconfigured, failed, timed
\* out or errored; a verdict produced while a hard-block or policy rule fired
\* is never unknown.
C12_TriState ==
    AdapterReturned =>
        /\ adOut.valid \in Verdicts
        /\ adOut.valid = "null" =>
              (adOut.reason \in ProviderUnavailableReasons /\ ProviderErrored)
        /\ BlockRuleFired => adOut.valid = "false"

C12_Witness ==
    /\ AdapterReturned
    /\ adName = "numverify"
    /\ adCountry = "GB"
    /\ adResp.kind = "json"
    /\ adResp.data \in WellFormedPhoneData
    /\ adResp.data.valid = "T"
    /\ adResp.data.country_code = "US"
    /\ BlockRuleFired
    /\ adOut.valid = "false"

Denylisted(email) == isBlockedEmailPrefix(email) \/ isBlockedEmailDomain(email)

\* Cache stores to start validateEmail from: empty, holding a live verdict for
\* the address under either key, holding an expired one.
ProbeStores(email) ==
    {EmptyCache,
     setCache(EmptyCache, EmailKey(email), EmailVerdict("true", "U", "good", 100),
              EMAIL_TTL_MS, now),
     setCache(EmptyCache, ZBKey(normalizeEmail(email)),
              ZBCheck("true", "valid", "", "U", 100), ZB_TTL_VALID_MS, now),
     setCache(EmptyCache, EmailKey(email), EmailVerdict("true", "U", "good", 100),
              EMAIL_TTL_MS, now - EMAIL_TTL_MS - 1)}

NoEmailWork(r) == r.nRead = 0 /\ r.nWrite = 0 /\ r.nFetch = 0 /\ r.nDns = 0

\* C13: in the generation that has the denylist, validateEmail on an address
\* matching a blocked prefix or a blocked domain returns valid = false without
\* reading or writing the cache and without a provider call or MX lookup,
\* whatever the cache holds for the address.
C13_DenylistShortCircuit ==
    (deploy = "zb" /\ Denylisted(bodyEmail)) =>
        /\ rq.pc \notin {"emailFetch", "emailMx"}
        /\ rq.pc = "phone" =>
              (rq.emailR.valid = "false" /\ NoEmailWork(rq) /\ cache = rq.cache0)
        /\ \A store \in ProbeStores(bodyEmail) :
              LET s == validateEmailStart("zb", pcfg, NewRq("validate", store), store,
                                          bodyEmail, now)
              IN /\ s.cache = store
                 /\ NoEmailWork(s.rq)
                 /\ s.rq.pc = "phone"
                 /\ s.rq.emailR.valid = "false"

C13_Witness ==
    /\ deploy = "zb"
    /\ isBlockedEmailDomain(bodyEmail)
    /\ rq.route = "lead"
    /\ rq.pc = "phone"
    /\ nReq = 2
    /\ cache # EmptyCache
    /\ cache = rq.cache0
    /\ rq.emailR.valid = "false"
    /\ NoEmailWork(rq)

\* C14: for a denylisted address validateEmail returns valid = false with the
\* reason code of the rule that fired: blocked_prefix for a local-part prefix
\* match, blocked_domain for a domain match.
C14_DenylistReasonCode ==
    (deploy = "zb" /\ isPlausibleEmail(bodyEmail) /\ Denylisted(bodyEmail)
        /\ rq.pc = "phone") =>
        /\ rq.emailR.valid = "false"
        /\ rq.emailR.reason = IF isBlockedEmailPrefix(bodyEmail)
                              THEN "blocked_prefix" ELSE "blocked_domain"

\* validateEmail (validatePhone) returned in the previous request and in this
\* one, for an input that passes the pre-check and the denylist.
TwoEmailCalls ==
    /\ isPlausibleEmail(bodyEmail)
    /\ ~(deploy = "zb" /\ Denylisted(bodyEmail))
    /\ rq.prev.emailR.valid \in Verdicts
    /\ rq.emailR.valid \in Verdicts

TwoPhoneCalls ==
    /\ isPlausiblePhoneBare(bodyPhone)
    /\ rq.prev.phoneR.valid \in Verdicts
    /\ rq.phoneR.valid \in Verdicts

\* C15: two successive validateEmail (validatePhone) calls with the same input
\* within the cache TTL return field-identical verdicts and call the provider
\* at most once in total.
C15_Idempotent ==
    /\ TwoEmailCalls =>
          (rq.emailR = rq.prev.emailR /\ rq.prev.nFetch + rq.nFetch <= 1)
    /\ TwoPhoneCalls =>
          (rq.phoneR = rq.prev.phoneR /\ rq.prev.nPhoneFetch + rq.nPhoneFetch <= 1)

\* The parts of C15 that do hold: the provider is called at most once over the
\* two calls, and valid and reason repeat.
C15_ProviderAtMostOnce ==
    /\ TwoEmailCalls => rq.prev.nFetch + rq.nFetch <= 1
    /\ TwoPhoneCalls => rq.prev.nPhoneFetch + rq.nPhoneFetch <= 1

C15_ValidAndReasonRepeat ==
    /\ TwoEmailCalls => (rq.emailR.valid = rq.prev.emailR.valid
                         /\ rq.emailR.reason = rq.prev.emailR.reason)
    /\ TwoPhoneCalls => (rq.phoneR.valid = rq.prev.phoneR.valid
                         /\ rq.phoneR.reason = rq.prev.phoneR.reason)

(***************************************************************************)
(* SpecCache: the TTL cache alone                                          *)
(***************************************************************************)
CacheKeys == {"email:a@b.co", "phone:US:2025550123"}
CacheValues == {"v1", "v2"}
CacheTtls == 1..MaxTtl

InitCache ==
    /\ RLIdle
    /\ AdapterIdle
    /\ PipeIdle
    /\ CacheIdle
    /\ FormIdle
    /\ CoIdle

cacheFixed == <<windows, limit, windowMs, rlRes, rlAt, winCalls, winFirst, resetFrom,
                adVars, deploy, pcfg, bodyEmail, bodyPhone, bodyCountry, rq, nReq, formVars, coVars>>

\* setCache(key, value, ttlMs)
CacheSet(key, value, ttlMs) ==
    /\ cache' = setCache(cache, key, value, ttlMs, now)
    /\ chLog' = [x \in DOMAIN chLog \cup {key} |->
                    IF x = key THEN [value |-> value, at |-> now, ttl |-> ttlMs]
                    ELSE chLog[x]]
    /\ chGot' = NoGet
    /\ UNCHANGED <<now, cacheFixed>>

\* getCache(key)
CacheGet(key) ==
    /\ chGot' = [key |-> key, value |-> getCache(cache, key, now)]
    /\ cache' = getCacheStore(cache, key, now)
    /\ UNCHANGED <<now, chLog, cacheFixed>>

\* The clock advances by one millisecond.
CacheTick ==
    /\ now < MaxTime
    /\ now' = now + 1
    /\ chGot' = NoGet
    /\ UNCHANGED <<cache, chLog, cacheFixed>>

NextCache ==
    \/ \E k \in CacheKeys, v \in CacheValues, ttl \in CacheTtls : CacheSet(k, v, ttl)
    \/ \E k \in CacheKeys : CacheGet(k)
    \/ CacheTick

SpecCache == InitCache /\ [][NextCache]_vars

\* The last setCache on the key is still live at the present time.
Live(key) == key \in DOMAIN chLog /\ now <= chLog[key].at + chLog[key].ttl

\* C16: a getCache returns the value of the last setCache on its key up to
\* that set's time + ttl; after that it returns absent and the entry is gone
\* from the store; an entry in the store carries the value and the expiry of
\* the last setCache on its key.
C16_TtlCache ==
    /\ chGot # NoGet =>
          /\ Live(chGot.key) => chGot.value = chLog[chGot.key].value
          /\ ~Live(chGot.key) => (chGot.value = Absent /\ chGot.key \notin DOMAIN cache)
    /\ \A k \in DOMAIN cache :
          /\ k \in DOMAIN chLog
          /\ cache[k] = [value |-> chLog[k].value,
                         expiresAt |-> chLog[k].at + chLog[k].ttl]

C16_Witness ==
    /\ chGot.key \in CacheKeys
    /\ chGot.key \in DOMAIN chLog
    /\ chLog[chGot.key].at > 0
    /\ now > chLog[chGot.key].at + chLog[chGot.key].ttl
    /\ chGot.value = Absent
    /\ chGot.key \notin DOMAIN cache
    /\ DOMAIN cache # {}

FallbackTrigger(pre) ==
    pre.valid = "null" /\ pre.reason \in {"timeout_soft_pass", "provider_missing"}

ProvisionalReasons == {"provisional_trusted", "provisional_mx"}

TimedOutOrMissing ==
    /\ rq.emailEnd \in {"timeout", "nokey"}
    /\ rq.emailR.valid \in Verdicts

TrustedDomain == getDomain(normalizeEmail(bodyEmail)) \in TRUSTED_EMAIL_DOMAINS

\* C18: when the provider times out or is missing and the domain is trusted,
\* validateEmail returns {valid: true, reason: provisional_trusted,
\* confidence: good} without an MX lookup; an MX lookup is made only for a
\* domain that is not trusted.
C18_TrustedUpgrade ==
    /\ (TimedOutOrMissing /\ TrustedDomain) =>
          /\ rq.emailR.valid = "true"
          /\ rq.emailR.reason = "provisional_trusted"
          /\ rq.emailR.confidence = "good"
          /\ rq.nDns = 0
    /\ (rq.pc = "emailMx" \/ rq.nDns > 0) => ~TrustedDomain

\* The part of C18 that holds in the Mailboxlayer generation: valid, reason
\* and the absence of an MX lookup.
C18_TrustedNoMx ==
    /\ (deploy = "mbl" /\ TimedOutOrMissing /\ TrustedDomain) =>
          /\ rq.emailR.valid = "true"
          /\ rq.emailR.reason = "provisional_trusted"
          /\ rq.nDns = 0
    /\ (rq.pc = "emailMx" \/ rq.nDns > 0) => ~TrustedDomain

\* C19: when the provider times out or is missing and the domain is not
\* trusted, a non-role address whose MX lookup finds a record gets
\* {valid: true, reason: provisional_mx, confidence: medium}; with no record
\* (or a failed or timed-out lookup), or for a role address, the verdict
\* stays unknown.
C19_MxUpgrade ==
    (TimedOutOrMissing /\ ~TrustedDomain) =>
        IF ~isRoleEmail(normalizeEmail(bodyEmail)) /\ rq.mx = "found"
        THEN /\ rq.emailR.valid = "true"
             /\ rq.emailR.reason = "provisional_mx"
             /\ rq.emailR.confidence = "medium"
        ELSE rq.emailR.valid = "null"

\* The part of C19 that holds in the Mailboxlayer generation: valid and
\* reason, and no MX lookup for a role address.
C19_MxValidAndReason ==
    (deploy = "mbl" /\ TimedOutOrMissing /\ ~TrustedDomain) =>
        /\ IF ~isRoleEmail(normalizeEmail(bodyEmail)) /\ rq.mx = "found"
           THEN rq.emailR.valid = "true" /\ rq.emailR.reason = "provisional_mx"
           ELSE rq.emailR.valid = "null"
        /\ isRoleEmail(normalizeEmail(bodyEmail)) => rq.nDns = 0
        /\ ~isRoleEmail(normalizeEmail(bodyEmail)) => rq.mx # "none"

\* validateEmail answered bad_format and did nothing else.
EmailRejectedLocally(reason) ==
    /\ rq.emailR.valid = "false"
    /\ rq.emailR.reason = reason
    /\ rq.nFetch = 0
    /\ rq.nDns = 0
    /\ rq.pc = "phone" => (rq.nRead = 0 /\ rq.nWrite = 0 /\ cache = rq.cache0)

\* validatePhone answered bad_format and did nothing else.
PhoneRejectedLocally(reason) ==
    /\ rq.phoneR.valid = "false"
    /\ rq.phoneR.reason = reason
    /\ rq.nPhoneFetch = 0
    /\ PhoneKey(bodyPhone, ToUpperCase(bodyCountry)) \notin DOMAIN cache

\* C20: an email that fails the format / length pre-check and a phone whose
\* digit count is outside 7..15 are answered valid = false with reason
\* bad_format, with no provider call, no DNS lookup and no cache write.
C20_PreCheckShortCircuit ==
    /\ (~isPlausibleEmail(bodyEmail) /\ rq.emailR.valid \in Verdicts) =>
          EmailRejectedLocally("bad_format")
    /\ (~isPlausiblePhoneBare(bodyPhone) /\ rq.phoneR.valid \in Verdicts) =>
          PhoneRejectedLocally("bad_format")

\* What holds of C20: the short-circuit itself, with reason empty for a blank
\* input and bad_format for any other input that fails the pre-check.
C20_ShortCircuitEmptyOrBadFormat ==
    /\ (~isPlausibleEmail(bodyEmail) /\ rq.emailR.valid \in Verdicts) =>
          EmailRejectedLocally(IF trim(bodyEmail) = <<>> THEN "empty" ELSE "bad_format")
    /\ (~isPlausiblePhoneBare(bodyPhone) /\ rq.phoneR.valid \in Verdicts) =>
          PhoneRejectedLocally(IF trim(bodyPhone) = <<>> THEN "empty" ELSE "bad_format")

\* The NANP rule as the claim states it: after one leading 1 is stripped from
\* an 11-digit input, not 10 digits, or area code starting with 0 or 1, or
\* exchange code starting with 0 or 1, or exchange code of the form N11.
NanpRejectRule(phone) ==
    LET all == digitsOnly(phone)
        d == IF Len(all) = 11 /\ Head(all) = "1" THEN Tail(all) ELSE all
    IN IF Len(d) # 10 THEN TRUE
       ELSE \/ d[1] \in {"0", "1"}
            \/ d[4] \in {"0", "1"}
            \/ (d[5] = "1" /\ d[6] = "1")

\* validatePhone has answered for a NANP country, not from the cache.
NanpAnswered ==
    /\ deploy = "zb"
    /\ ToUpperCase(bodyCountry) \in {"US", "CA"}
    /\ isPlausiblePhoneBare(bodyPhone)
    /\ rq.phoneR.valid \in Verdicts
    /\ rq.phoneEnd # "cached"

RejectedLocally == rq.phoneR.valid = "false" /\ rq.phoneEnd = "local" /\ rq.nPhoneFetch = 0

\* C21: for a NANP country validatePhone rejects a number locally (valid =
\* false, no network call) exactly when the number breaks the NANP rule.
C21_NanpPrecheck ==
    NanpAnswered => (RejectedLocally <=> NanpRejectRule(bodyPhone))

\* One direction of C21 that holds when the provider key is set: a number
\* that breaks the rule is rejected locally.
C21_RuleBreakRejected ==
    (NanpAnswered /\ pcfg.phoneKey /\ NanpRejectRule(bodyPhone)) => RejectedLocally

\* The phone provider answered and reported the number valid (Numverify:
\* valid true; PhoneValidator: status 200, not deactivated).
ProviderSaysValid ==
    /\ rq.phoneEnd = "json"
    /\ rq.phoneR.valid \in Verdicts
    /\ ~rq.phoneResp.isNull
    /\ IF deploy = "mbl" THEN rq.phoneResp.valid = "T"
       ELSE /\ rq.phoneResp.httpOk = "T"
            /\ rq.phoneResp.StatusCode = "200"
            /\ rq.phoneResp.LastDeactivation # "T"

ReportedLineType ==
    IF deploy = "mbl" THEN ToLowerCase(rq.phoneResp.line_type)
    ELSE IF rq.phoneResp.LineType = "VOIP" THEN "voip"
    ELSE IF rq.phoneResp.LineType = "LANDLINE" THEN "landline"
    ELSE "other"

\* The policy reasons that apply to the response, as the claim lists them.
PolicyReasons ==
    (IF ReportedLineType = "voip" /\ PhoneCfg(pcfg).blockVoip THEN {"voip_blocked"} ELSE {})
    \cup (IF ReportedLineType = "landline" /\ ~ALLOW_LANDLINE
          THEN {"line_type_blocked"} ELSE {})
    \cup (IF deploy = "mbl" /\ bodyCountry # "" /\ rq.phoneResp.country_code # "U"
             /\ ToUpperCase(rq.phoneResp.country_code) # ToUpperCase(bodyCountry)
          THEN {"country_mismatch"} ELSE {})

\* C22: on a provider response that reports the number valid, the verdict is
\* valid = false with reason voip_blocked, line_type_blocked or
\* country_mismatch when that policy applies, and valid = true in every other
\* case.
C22_PhonePolicy ==
    ProviderSaysValid =>
        IF PolicyReasons = {} THEN rq.phoneR.valid = "true"
        ELSE rq.phoneR.valid = "false" /\ rq.phoneR.reason \in PolicyReasons

\* C22 restricted to the Numverify adapter, over every configuration, country
\* hint and well-formed response.
C22_NumverifyPolicy ==
    (AdapterReturned /\ adName = "numverify" /\ adCfg.key /\ adResp.kind = "json"
        /\ adResp.data \in WellFormedPhoneData /\ adResp.data.valid = "T") =>
        LET lt == ToLowerCase(adResp.data.line_type)
            mismatch == adCountry # ""
                        /\ ToUpperCase(adResp.data.country_code) # ToUpperCase(adCountry)
        IN IF mismatch THEN adOut.valid = "false" /\ adOut.reason = "country_mismatch"
           ELSE IF lt = "landline" /\ ~ALLOW_LANDLINE
           THEN adOut.valid = "false" /\ adOut.reason = "line_type_blocked"
           ELSE IF lt = "voip" /\ adCfg.blockVoip
           THEN adOut.valid = "false" /\ adOut.reason = "voip_blocked"
           ELSE adOut.valid = "true"

SameEntry(a, b, key) ==
    IF key \in DOMAIN a THEN (IF key \in DOMAIN b THEN a[key] = b[key] ELSE FALSE)
    ELSE key \notin DOMAIN b

ThisPhoneKey == PhoneKey(bodyPhone, ToUpperCase(bodyCountry))

\* C24: the entry email:<address> (phone:<country>:<digits>) is written only
\* once the provider step and, for email, the fallback step are over, at most
\* once per call, and holds the final verdict the call returns.
C24_CacheHoldsFinalVerdict ==
    /\ rq.nEmailKeyWrite <= 1
    /\ rq.nPhoneKeyWrite <= 1
    /\ rq.pc \in {"email", "emailFetch", "emailMx"} =>
          /\ rq.nEmailKeyWrite = 0
          /\ SameEntry(cache, rq.cache0, EmailKey(bodyEmail))
    /\ rq.pc \in {"email", "emailFetch", "emailMx", "phone", "phoneFetch"} =>
          /\ rq.nPhoneKeyWrite = 0
          /\ SameEntry(cache, rq.cache0, ThisPhoneKey)
    /\ rq.nEmailKeyWrite = 1 =>
          /\ rq.emailR.valid \in Verdicts
          /\ rq.emailEnd \notin {"none", "cached"}
          /\ EmailKey(bodyEmail) \in DOMAIN cache
          /\ cache[EmailKey(bodyEmail)].value = EmailStored(deploy, rq.emailR)
    /\ rq.nPhoneKeyWrite = 1 =>
          /\ rq.phoneR.valid \in Verdicts
          /\ rq.phoneEnd \notin {"none", "cached"}
          /\ ThisPhoneKey \in DOMAIN cache
          /\ cache[ThisPhoneKey].value = PhoneStored(deploy, rq.phoneR)
    /\ (rq.nEmailKeyWrite = 0 /\ rq.pc \in {"phone", "phoneFetch", "done"}) =>
          SameEntry(cache, rq.cache0, EmailKey(bodyEmail))

C24_Witness ==
    /\ rq.nEmailKeyWrite = 1
    /\ rq.pre.valid = "null"
    /\ rq.emailR.reason = "provisional_mx"
    /\ cache[EmailKey(bodyEmail)].value.reason = "provisional_mx"
    /\ rq.nPhoneKeyWrite = 1
    /\ rq.pc = "done"

(***************************************************************************)
(* SpecForm: the client form                                               *)
(***************************************************************************)
InitForm ==
    /\ RLIdle
    /\ AdapterIdle
    /\ PipeIdle
    /\ CacheIdle
    /\ CoIdle
    /\ \E requiredOk \in BOOLEAN : form = FormInit(requiredOk)

formFixed == <<rlVars, adVars, pipeVars, chVars, coVars>>

\* A fetch rejected by controller.abort() has its continuation queued as a
\* microtask: it runs before the next event is handled.
AbortQueued == \E f \in Fields : \E r \in form.reqs[f] : r.st = "aborted"

\* The user edits a field.
Change(f, v) ==
    /\ ~AbortQueued
    /\ v # form.value[f]
    /\ form' = onChange(form, f, v)
    /\ UNCHANGED formFixed

\* The field loses focus: onBlur={validateEmailField}
Blur(f) ==
    /\ ~AbortQueued
    /\ form.nCalls["email"] + form.nCalls["phone"] < MaxBlurs
    /\ form' = validateField(form, f)
    /\ UNCHANGED formFixed

\* The fetch of a request settles (answered, failed, or rejected by the
\* abort) and the function runs to its end.
Settle(f) ==
    /\ \E r \in form.reqs[f], answer \in FormAnswers :
          /\ AbortQueued => r.st = "aborted"
          /\ form' = afterFetch(form, f, r, answer)
    /\ UNCHANGED formFixed

NextForm ==
    \/ \E f \in Fields, v \in FieldValues : Change(f, v)
    \/ \E f \in Fields : Blur(f)
    \/ \E f \in Fields : Settle(f)

SpecForm == InitForm /\ [][NextForm]_vars

\* A request of the field is in flight: sent, not answered, not aborted.
InFlight(f) == \E r \in form.reqs[f] : r.st = "flight"

\* C25: once a newer validation of a field has been started, the response of
\* an earlier request never sets the field's valid / reason state.
C25_StaleIgnored ==
    \A f \in Fields : ~form.setByStale[f]

\* The part of C25 that holds: a request whose controller was replaced by a
\* newer request's never sets the state.
C25_AbortedNeverSets ==
    \A f \in Fields : ~form.setByAborted[f]

\* C26: whenever a validation request is in flight, canSubmit is false.
C26_PendingDisablesSubmit ==
    (\E f \in Fields : InFlight(f)) => ~canSubmit(form)

(***************************************************************************)
(* SpecCo: validateEmail (or validatePhone) calls for the same input,      *)
(* overlapping in time                                                     *)
(***************************************************************************)
CoEmails == {EmailA, <<"a", "@", "a", "b", ".", "c", "o">>}

InitCo ==
    /\ RLIdle
    /\ AdapterIdle
    /\ CacheIdle
    /\ FormIdle
    /\ \E w \in Fields : co = [which |-> w, call |-> [c \in 1..MaxOverlap |-> IdleRq],
                               last |-> 0]
    /\ deploy \in Deploys
    /\ pcfg \in PipeConfigs
    /\ bodyEmail \in CoEmails
    /\ bodyPhone = PhoneA
    /\ bodyCountry = "US"
    /\ cache = EmptyCache
    /\ rq = IdleRq
    /\ nReq = 0

coFixed == <<rlVars, adVars, deploy, pcfg, bodyEmail, bodyPhone, bodyCountry, rq, nReq,
             chVars, formVars>>

\* The number of writes call r has made under the key of its input.
CoKeyWrites(r) == IF co.which = "email" THEN r.nEmailKeyWrite ELSE r.nPhoneKeyWrite

\* The call that the step of call c leaves, and whether the step wrote the
\* key of the input.
CoStep(c, s) ==
    /\ cache' = s.cache
    /\ co' = [co EXCEPT !.call[c] = s.rq,
                        !.last = IF CoKeyWrites(s.rq) > CoKeyWrites(co.call[c])
                                 THEN c ELSE @]
    /\ UNCHANGED coFixed

\* A caller enters validateEmail(email) (or validatePhone(phone, country)).
CoStart(c) ==
    /\ co.call[c].pc = "idle"
    /\ CoStep(c, IF co.which = "email"
                 THEN validateEmailStart(deploy, pcfg, NewRq("validate", cache), cache,
                                         bodyEmail, now)
                 ELSE validatePhoneStart(deploy, pcfg, NewRq("validate", cache), cache,
                                         bodyPhone, bodyCountry, now))

\* The provider's HTTP call of call c ends.
CoSettle(c) ==
    \/ /\ co.call[c].pc = "emailFetch"
       /\ \E o \in PipeEmailOutcomes(deploy) :
            CoStep(c, validateEmailResume(deploy, pcfg, co.call[c], cache, bodyEmail, o, now))
    \/ /\ co.call[c].pc = "phoneFetch"
       /\ \E o \in PipePhoneOutcomes(deploy) :
            CoStep(c, validatePhoneResume(deploy, pcfg, co.call[c], cache, bodyPhone,
                                          bodyCountry, o, now))

\* hasMx(domain) of call c settles.
CoMx(c) ==
    /\ co.call[c].pc = "emailMx"
    /\ \E mxEnd \in MxEnds :
          CoStep(c, validateEmailMx(deploy, co.call[c], cache, bodyEmail, mxEnd, now))

NextCo ==
    \/ \E c \in 1..MaxOverlap : CoStart(c)
    \/ \E c \in 1..MaxOverlap : CoSettle(c)
    \/ \E c \in 1..MaxOverlap : CoMx(c)

SpecCo == InitCo /\ [][NextCo]_vars

\* Call c has returned from validateEmail (validatePhone).
CoReturned(c) ==
    IF co.which = "email" THEN co.call[c].pc = "phone"
    ELSE co.call[c].pc = "done" /\ ~co.call[c].threw

\* Call c missed the cache and asked the provider.
CoAsked(c) ==
    IF co.which = "email" THEN co.call[c].nFetch = 1 ELSE co.call[c].nPhoneFetch = 1

\* The provider is configured for the field the calls validate.
CoConfigured == IF co.which = "email" THEN pcfg.emailKey ELSE pcfg.phoneKey

\* The key of the input, and the verdict call c returned as the cache keeps it.
CoKey ==
    IF co.which = "email" THEN EmailKey(bodyEmail)
    ELSE PhoneKey(bodyPhone, ToUpperCase(bodyCountry))

CoKept(c) ==
    IF co.which = "email" THEN EmailStored(deploy, co.call[c].emailR)
    ELSE PhoneStored(deploy, co.call[c].phoneR)

CoVerdict(c) ==
    IF co.which = "email" THEN co.call[c].emailR.valid ELSE co.call[c].phoneR.valid

\* C27: calls for the same uncached key that overlap are not coalesced: a
\* call that finds no entry asks the provider whatever the other calls are
\* doing; each call that asked the provider ends by returning a verdict, having
\* written the entry once; the entry is the one of the call that wrote last.
C27_NoCoalescing ==
    /\ \A c \in 1..MaxOverlap :
          /\ (co.call[c].pc # "idle" /\ co.call[c].cache0 = EmptyCache /\ CoConfigured)
                => CoAsked(c)
          /\ CoAsked(c) =>
                /\ co.call[c].pc \in {"emailFetch", "emailMx", "phoneFetch"} \/ CoReturned(c)
                /\ CoReturned(c) =>
                      /\ CoVerdict(c) \in Verdicts
                      /\ CoKeyWrites(co.call[c]) = 1
    /\ co.last # 0 =>
          /\ CoKey \in DOMAIN cache
          /\ cache[CoKey].value = CoKept(co.last)

C27_Witness ==
    /\ CoReturned(1) /\ CoReturned(2)
    /\ CoAsked(1) /\ CoAsked(2)
    /\ co.call[1].cache0 = EmptyCache
    /\ co.call[2].cache0 = EmptyCache
    /\ CoVerdict(1) = "true"
    /\ CoVerdict(2) = "false"
    /\ co.last = 1
    /\ cache[CoKey].value.valid = "true"

(***************************************************************************)
(* C28 (SpecRL). rateLimit has no await between reading the window and     *)
(* writing it, so concurrent calls run one after the other in some order:  *)
(* every order of RateLimitCall steps, several at the same instant         *)
(* included, is a behaviour of SpecRL.                                     *)
(***************************************************************************)
\* The step is a rateLimit call for key k.
CalledKey(k) ==
    /\ k \in DOMAIN rlAt'
    /\ IF k \notin DOMAIN rlAt THEN TRUE
       ELSE rlAt'[k] # rlAt[k] \/ winCalls'[k] # winCalls[k]

\* The step is a rateLimit call for key k that was denied.
DeniedCall(k) == CalledKey(k) /\ ~rlRes'[k].allowed

CountWithinLimit ==
    \A k \in DOMAIN windows : 0 <= windows[k].count /\ windows[k].count <= limit

\* C28 as stated: every stored window has 0 <= count <= limit, and a denied
\* call leaves the client's stored window (count and resetAt) as it was.
C28_DeniedLeavesWindow ==
    /\ []CountWithinLimit
    /\ [][\A k \in Keys : (DeniedCall(k) /\ k \in DOMAIN windows) =>
             windows'[k] = windows[k]]_vars

\* C28 as amended: every stored window has 0 <= count <= limit; a denied call
\* that finds a stored window that has not expired leaves its count and
\* resetAt as they were, and that is every denied call when limit >= 1; with
\* limit = 0 a denied call that finds no window or an expired one stores a
\* fresh window with count 0 and resetAt = now + windowMs.
C28_DeniedLeavesLiveWindow ==
    /\ []CountWithinLimit
    /\ [][\A k \in Keys : DeniedCall(k) =>
             IF ~WindowExpired(windows, k, now)
             THEN windows'[k] = windows[k]
             ELSE /\ limit = 0
                  /\ windows'[k] = [count |-> 0, resetAt |-> now + windowMs]]_vars

\* Two calls of one client at the same instant, the second denied on a full
\* window.
C28_Witness ==
    \E k \in DOMAIN windows :
        /\ limit >= 1
        /\ winCalls[k] = limit + 1
        /\ rlAt[k] = now
        /\ ~rlRes[k].allowed
        /\ windows[k].count = limit
        /\ now <= windows[k].resetAt

\* The keys the limiter may hold: "unknown" and the identifiable addresses.
StoredKeys == {"unknown"} \cup (Ips \ {""})

\* C29: a rateLimit call for one client key leaves every other key's window
\* (count and resetAt) as it was, adds no key but its own, and leaves the
\* validation cache alone; the empty client id is counted under the key
\* "unknown", never under a key of its own, and that is the key of a request
\* without the address headers.
C29_OtherKeysUntouched ==
    /\ [](DOMAIN windows \subseteq StoredKeys /\ ClientKey(getIp("")) = ClientKey(""))
    /\ [][\A k \in StoredKeys : CalledKey(k) =>
             /\ DOMAIN windows' = DOMAIN windows \cup {k}
             /\ \A j \in DOMAIN windows \ {k} : windows'[j] = windows[j]
             /\ cache' = cache]_vars

\* Both clients hold a window, with different counts and different resetAt.
C29_Witness ==
    /\ DOMAIN windows = StoredKeys
    /\ windows["unknown"].count = 2
    /\ windows["10.0.0.1"].count = 1
    /\ windows["unknown"].resetAt < windows["10.0.0.1"].resetAt
    /\ rlAt["unknown"] > rlAt["10.0.0.1"]

\* An entry set at time t with time-to-live ttl is returned by a getCache at
\* t + ttl and is absent for a getCache after it.
CacheBoundaryStrict ==
    \A k \in CacheKeys, v \in CacheValues, ttl \in CacheTtls, t \in 0..MaxTime :
        LET store == setCache(EmptyCache, k, v, ttl, t)
        IN /\ store[k].expiresAt = t + ttl
           /\ getCache(store, k, t + ttl) = v
           /\ getCacheStore(store, k, t + ttl) = store
           /\ getCache(store, k, t + ttl + 1) = Absent
           /\ getCacheStore(store, k, t + ttl + 1) = EmptyCache

\* C30: the expiry boundaries are strict. A rateLimit call made while
\* now <= resetAt, the instant now = resetAt included, is counted against the
\* stored window (resetAt stays; a full window denies and is left as it is);
\* only a call with now > resetAt starts a new window. A getCache at
\* now = expiresAt returns the value; only a later one finds it gone.
C30_StrictBoundaries ==
    /\ []CacheBoundaryStrict
    /\ [][\A k \in DOMAIN windows : CalledKey(k) =>
             IF now <= windows[k].resetAt
             THEN /\ windows'[k].resetAt = windows[k].resetAt
                  /\ rlRes'[k].resetAt = windows[k].resetAt
                  /\ IF windows[k].count >= limit
                     THEN ~rlRes'[k].allowed /\ windows'[k].count = windows[k].count
                     ELSE rlRes'[k].allowed /\ windows'[k].count = windows[k].count + 1
             ELSE /\ windows'[k].resetAt = now + windowMs
                  /\ windows'[k].count = IF limit > 0 THEN 1 ELSE 0
                  /\ rlRes'[k].allowed = (limit > 0)]_vars

\* A client that used up its window is denied by a call made at exactly
\* now = resetAt, after time has passed since the window began.
C30_Witness ==
    \E k \in DOMAIN windows :
        /\ limit >= 1
        /\ windows[k].count = limit
        /\ now = windows[k].resetAt
        /\ rlAt[k] = now
        /\ ~rlRes[k].allowed
        /\ winCalls[k] = limit + 1

====
